---- MODULE Spec2Model ----
(***************************************************************************)
(* Model of the core of govcon-capture-vibe: the RFP chunker               *)
(* (src/src/core/chunking.py, class ShipleyRFPChunker), the ontology       *)
(* module (src/src/core/ontology.py) and the LightRAG chunking function    *)
(* (src/src/core/lightrag_chunking.py).                                    *)
(*                                                                         *)
(* TEXT.  A text is a sequence of lines ("units").  Every unit stands for  *)
(* one fixed line of 100 characters that ends with its newline:            *)
(*   hdr  s n  "SECTION <s> - <canonical title>", blank padded; with n = 1 *)
(*             a full stop follows the title                               *)
(*   alt  s n  a line matched only by alternative pattern n of label s     *)
(*   att  n    "Attachment J-<n> - <title>" filling the line               *)
(*   sub  s n  "<s>.<n> <title>", blank padded (subsection heading)        *)
(*   num  n    "<n>.1 <title>", blank padded (bare numeric heading)        *)
(*   let  s n  "<s>.<letter n> <title>", blank padded (lettered heading)    *)
(*   item n    "(<n>) <text>", blank padded (parenthesised item)           *)
(*   req  n s  obligation sentence number n ("... shall ..."), ended by a  *)
(*             full stop; s is the trigger keyword it contains, if any     *)
(*   brief n   obligation sentence of 26 characters with its full stop,    *)
(*             blank padded ("Vendor shall comply fully.")                 *)
(*   sen  n s  sentence without obligation word, ended by a full stop      *)
(*   txt  n s  running text without sentence end                           *)
(*   phr  n    running text with the phrase of RFP detection pattern n:    *)
(*             3 "request for proposal", 7 "statement of work",            *)
(*             10 "solicitation provisions"                                *)
(*   ref  s    running text that mentions "section <s>:" in passing        *)
(*   blank     a line of blanks                                            *)
(*   nl2       the two characters "\n\n" that _split_large_content appends *)
(* Field cut counts the trailing characters a strip() or a paragraph split *)
(* has removed from the unit, so that lengths are exact character counts.  *)
(* A regular expression is modelled by the units at whose first character  *)
(* it matches.  Offsets and lengths are in characters.                     *)
(***************************************************************************)
EXTENDS Integers, Sequences, FiniteSets, TLC

\* relationship_mappings: the table of the ShipleyRFPChunker instance;
\* document_text, size_limit: the arguments of the process_document call whose
\* result the caller holds; rfp_sections, rfp_chunks: what the call identified
\* and returned; pc: "idle" between calls, "returned" while a result is held;
\* runs: the calls made on the instance so far; passes: the further
\* _add_cross_references passes made over the held result.
VARIABLES relationship_mappings, pc, document_text, size_limit, rfp_sections, rfp_chunks,
          runs, passes

\* The module src/src/core/ontology.py.  VALID_RELATIONSHIPS and
\* RELATIONSHIP_IMPORTANCE: its two module-level tables; callers: for every
\* caller the call it is in and where it stands; frames: the local variable
\* result of get_valid_relationships_for_entity in every caller's call.
VARIABLES VALID_RELATIONSHIPS, RELATIONSHIP_IMPORTANCE, callers, frames

\* The module src/src/core/lightrag_chunking.py.  CHUNK_METADATA_MAP: its
\* module-level dict _CHUNK_METADATA_MAP; lightrag_content: the content
\* argument of the last rfp_aware_chunking_func call; lightrag_chunks: what that call returned;
\* calls: the rfp_aware_chunking_func calls since the dict was last empty.
VARIABLES CHUNK_METADATA_MAP, lightrag_content, lightrag_chunks, calls

\* A direct call of chunker._extract_requirements: extract_text is the text
\* of the last call and extracted what it returned.
VARIABLES extract_text, extracted

chunkerVars == <<relationship_mappings, pc, document_text, size_limit, rfp_sections,
                 rfp_chunks, runs, passes>>

ontologyVars == <<VALID_RELATIONSHIPS, RELATIONSHIP_IMPORTANCE, callers, frames>>

lightragVars == <<CHUNK_METADATA_MAP, lightrag_content, lightrag_chunks, calls>>

extractVars == <<extract_text, extracted>>

vars == <<relationship_mappings, pc, document_text, size_limit, rfp_sections, rfp_chunks,
          runs, passes, VALID_RELATIONSHIPS, RELATIONSHIP_IMPORTANCE, callers, frames,
          CHUNK_METADATA_MAP, lightrag_content, lightrag_chunks, calls,
          extract_text, extracted>>

\* ------------------------------------------------------------------ units

U(k, s, n) == [k |-> k, s |-> s, n |-> n, cut |-> 0]

Blank == U("blank", "", 0)
NL2 == U("nl2", "", 0)

BaseLen(u) == IF u.k = "nl2" THEN 2 ELSE 100

\* Characters of text before the trailing blanks and the newline.
TextLen(u) ==
  CASE u.k = "hdr" -> 29 + u.n
    [] u.k = "alt" -> 29
    [] u.k \in {"sub", "num", "let", "item"} -> 20
    [] u.k \in {"blank", "nl2"} -> 0
    [] u.k = "brief" -> 26
    [] OTHER -> 99

TrailWs(u) == BaseLen(u) - TextLen(u)

CharLen(u) == BaseLen(u) - u.cut

IsWs(u) == u.k \in {"blank", "nl2"}

\* The unit ends with sentence-terminal punctuation ([.!?]).
Term(u) == u.k \in {"req", "sen", "brief"} \/ (u.k = "hdr" /\ u.n = 1)

\* The heading carries a full stop after its first character ("C.1", "1.1").
DotHead(u) == u.k \in {"sub", "num", "let"}

Same(u, v) == u.k = v.k /\ u.s = v.s /\ u.n = v.n

\* len(text)
RECURSIVE StrLen(_)
StrLen(t) == IF t = <<>> THEN 0 ELSE CharLen(Head(t)) + StrLen(Tail(t))

\* Offset of the first character of unit i of t.
Offset(t, i) == StrLen(SubSeq(t, 1, i - 1))

RECURSIVE DropLeadWs(_)
DropLeadWs(t) ==
  IF t = <<>> THEN <<>>
  ELSE IF IsWs(Head(t)) THEN DropLeadWs(Tail(t)) ELSE t

RECURSIVE DropTrailWs(_)
DropTrailWs(t) ==
  IF t = <<>> THEN <<>>
  ELSE IF IsWs(t[Len(t)]) THEN DropTrailWs(SubSeq(t, 1, Len(t) - 1)) ELSE t

\* str.strip()
Strip(t) ==
  LET core == DropTrailWs(DropLeadWs(t))
      n == Len(core)
  IN  IF n = 0 THEN <<>>
      ELSE [core EXCEPT ![n] = [core[n] EXCEPT !.cut = TrailWs(core[n])]]

\* text[a:b] for offsets that fall on unit boundaries; a negative offset
\* counts from the end of the text.
Slice(t, a, b) ==
  LET from == IF a >= 0 THEN a ELSE IF StrLen(t) + a > 0 THEN StrLen(t) + a ELSE 0
      to == IF b >= 0 THEN b ELSE IF StrLen(t) + b > 0 THEN StrLen(t) + b ELSE 0
      keep == {i \in 1..Len(t) : Offset(t, i) >= from /\ Offset(t, i) < to}
  IN  IF keep = {} THEN <<>>
      ELSE SubSeq(t, CHOOSE i \in keep : \A j \in keep : i <= j,
                     CHOOSE i \in keep : \A j \in keep : i >= j)

\* The trigger keyword appears in the text (substring test on lower case).
KeywordOf(u) ==
  CASE u.k = "hdr" /\ u.s = "M" -> "evaluat"
    [] u.k = "hdr" /\ u.s = "L" -> "instruction"
    [] u.k = "hdr" /\ u.s = "F" -> "performance"
    [] u.k = "alt" /\ u.s = "L" -> "instruction"
    [] u.k = "alt" /\ u.s = "M" /\ u.n = 1 -> "evaluat"
    [] u.k = "alt" /\ u.s = "B" /\ u.n = 2 -> "clin"
    [] u.k = "alt" /\ u.s = "C" /\ u.n = 2 -> "performance"
    [] u.k = "alt" /\ u.s = "F" /\ u.n = 2 -> "performance"
    [] u.k \in {"req", "sen", "txt"} -> u.s
    [] OTHER -> ""

Contains(t, kw) == \E i \in 1..Len(t) : KeywordOf(t[i]) = kw

\* ------------------------------------------------------------------ tables

\* Keys of section_patterns in declaration order, J_ATTACHMENT excluded.
SectionLabels == <<"A", "B", "C", "D", "E", "F", "G", "H", "I", "J", "K", "L", "M">>

\* section_patterns[label]["pattern"] matches at the first character of u.
MainPattern(label, u) == u.k = "hdr" /\ u.s = label

\* len(section_patterns[label]["alt_patterns"])
NumAltPatterns(label) == IF label \in {"D", "E", "G", "H", "K"} THEN 1 ELSE 2

\* section_patterns[label]["alt_patterns"][j-1] matches at the first character
\* of u; the second alternative of J is the bare word "attachment(s)".
AltPattern(label, j, u) ==
  \/ u.k = "alt" /\ u.s = label /\ u.n = j
  \/ label = "J" /\ j = 2 /\ u.k = "att"

\* section_patterns["J_ATTACHMENT"]["pattern"]
JAttachmentPattern(u) == u.k = "att"

\* A section id: the label, and the designator of an attachment "J-<n>"
\* (att = 0 for a lettered section).
SecId(base, att) == [base |-> base, att |-> att]

\* section_id.split('-')[0]
BaseOf(section_id) == section_id.base

\* A string of the relationship lists: a section label, or a chunk id.
Label(x) == <<x>>

\* _build_relationship_mappings()
InitialMappings ==
  [b \in {"L", "M", "C", "I", "H", "F", "B", "J"} |->
     CASE b = "L" -> <<Label("M"), Label("K")>>
       [] b = "M" -> <<Label("L"), Label("C")>>
       [] b = "C" -> <<Label("B"), Label("F"), Label("H"), Label("M")>>
       [] b = "I" -> <<Label("A"), Label("B"), Label("C"), Label("D"),
                       Label("E"), Label("F"), Label("G"), Label("H")>>
       [] b = "H" -> <<Label("C"), Label("M"), Label("I")>>
       [] b = "F" -> <<Label("B"), Label("C")>>
       [] b = "B" -> <<Label("C"), Label("F")>>
       [] b = "J" -> <<Label("C"), Label("L"), Label("M"), Label("H")>>]

\* ------------------------------------------------------------------ sections

\* Indices of the units of t that satisfy the pattern, ascending (re.finditer).
RECURSIVE MainMatches(_, _, _)
MainMatches(label, t, i) ==
  IF i > Len(t) THEN <<>>
  ELSE (IF MainPattern(label, t[i]) THEN <<i>> ELSE <<>>) \o MainMatches(label, t, i + 1)

RECURSIVE AltMatches(_, _, _, _)
AltMatches(label, j, t, i) ==
  IF i > Len(t) THEN <<>>
  ELSE (IF AltPattern(label, j, t[i]) THEN <<i>> ELSE <<>>) \o AltMatches(label, j, t, i + 1)

\* The first alternative pattern, from j on, that has a match.
RECURSIVE FirstAltMatches(_, _, _)
FirstAltMatches(label, j, t) ==
  IF j > NumAltPatterns(label) THEN <<>>
  ELSE IF AltMatches(label, j, t, 1) # <<>> THEN AltMatches(label, j, t, 1)
  ELSE FirstAltMatches(label, j + 1, t)

\* The matches recorded for one label: the main pattern first, the alternatives
\* only when it has no match.
LabelMatches(label, t) ==
  LET main == MainMatches(label, t, 1)
      idx == IF main # <<>> THEN main ELSE FirstAltMatches(label, 1, t)
  IN  [n \in 1..Len(idx) |-> [section_id |-> SecId(label, 0), start |-> Offset(t, idx[n])]]

RECURSIVE AllLabelMatches(_, _)
AllLabelMatches(l, t) ==
  IF l > Len(SectionLabels) THEN <<>>
  ELSE LabelMatches(SectionLabels[l], t) \o AllLabelMatches(l + 1, t)

RECURSIVE JAttachmentMatches(_, _)
JAttachmentMatches(t, i) ==
  IF i > Len(t) THEN <<>>
  ELSE (IF JAttachmentPattern(t[i])
        THEN <<[section_id |-> SecId("J", t[i].n), start |-> Offset(t, i)]>>
        ELSE <<>>) \o JAttachmentMatches(t, i + 1)

\* list.sort(key=start): stable insertion of m into the sorted list ms.
RECURSIVE InsertByStart(_, _)
InsertByStart(ms, m) ==
  IF ms = <<>> THEN <<m>>
  ELSE IF ms[Len(ms)].start <= m.start THEN Append(ms, m)
  ELSE Append(InsertByStart(SubSeq(ms, 1, Len(ms) - 1), m), ms[Len(ms)])

\* Variant of SortByStart: the matches stay in the order the patterns found them.
PatternOrder(ms) == ms

RECURSIVE SortByStart(_)
SortByStart(ms) ==
  IF ms = <<>> THEN <<>>
  ELSE InsertByStart(SortByStart(SubSeq(ms, 1, Len(ms) - 1)), ms[Len(ms)])

\* Variant of SectionMatches: the earliest match is not taken for a section.
LaterMatches(t) ==
  LET ms == SortByStart(AllLabelMatches(1, t) \o JAttachmentMatches(t, 1))
  IN  IF ms = <<>> THEN <<>> ELSE Tail(ms)

SectionMatches(t) == SortByStart(AllLabelMatches(1, t) \o JAttachmentMatches(t, 1))

\* ------------------------------------------------------------------ subsections

MinSubsectionLen == 50
CharsPerPage == 2000

NoSubsection == <<>>

\* subsection_patterns[p-1] matches at the first character of u; the first and
\* third patterns embed the parent's section id.
SubsectionPattern(p, parent, u) ==
  CASE p = 1 -> u.k = "sub" /\ parent.att = 0 /\ u.s = parent.base
    [] p = 2 -> u.k = "num"
    [] p = 3 -> u.k = "let" /\ parent.att = 0 /\ u.s = parent.base
    [] p = 4 -> u.k = "item"

NumSubsectionPatterns == 4

RECURSIVE SubMatches(_, _, _, _)
SubMatches(p, parent, t, i) ==
  IF i > Len(t) THEN <<>>
  ELSE (IF SubsectionPattern(p, parent, t[i]) THEN <<i>> ELSE <<>>)
       \o SubMatches(p, parent, t, i + 1)

\* The subsections one pattern yields: each match runs to the next match of
\* the same pattern (or the end of the section) and is kept when its stripped
\* content is longer than 50 characters.
RECURSIVE SubsectionsOf(_, _, _, _)
SubsectionsOf(parent, content, idx, n) ==
  IF n > Len(idx) THEN <<>>
  ELSE LET start_pos == Offset(content, idx[n])
           end_pos == IF n < Len(idx) THEN Offset(content, idx[n + 1])
                      ELSE StrLen(content)
           subsection_content == Strip(Slice(content, start_pos, end_pos))
           sub == [subsection_id |-> <<parent.base, parent.att,
                                       content[idx[n]].k, content[idx[n]].n>>,
                   title |-> <<content[idx[n]].k, content[idx[n]].n>>,
                   content |-> subsection_content,
                   parent_section |-> parent,
                   start_pos |-> start_pos,
                   end_pos |-> end_pos]
       IN  (IF StrLen(subsection_content) > MinSubsectionLen THEN <<sub>> ELSE <<>>)
           \o SubsectionsOf(parent, content, idx, n + 1)

\* The loop over subsection_patterns from pattern p on: it stops at the first
\* pattern that yields a kept subsection.
RECURSIVE IdentifySubsectionsFrom(_, _, _)
IdentifySubsectionsFrom(p, content, parent) ==
  IF p > NumSubsectionPatterns THEN <<>>
  ELSE LET subs == SubsectionsOf(parent, content, SubMatches(p, parent, content, 1), 1)
       IN  IF subs # <<>> THEN subs
           ELSE IdentifySubsectionsFrom(p + 1, content, parent)

\* _identify_subsections(section_content, parent_section_id)
IdentifySubsections(content, parent) == IdentifySubsectionsFrom(1, content, parent)

\* Variant of Max: the second argument, whatever the first.
Second(a, b) == b

\* max(a, b)
Max(a, b) == IF a >= b THEN a ELSE b

\* identify_sections(document_text)
IdentifySections(t) ==
  LET ms == SectionMatches(t)
  IN  [i \in 1..Len(ms) |->
         LET start_pos == ms[i].start
             end_pos == IF i + 1 <= Len(ms) THEN ms[i + 1].start ELSE StrLen(t)
             section_content == Strip(Slice(t, start_pos, end_pos))
         IN  [section_id |-> ms[i].section_id,
              content |-> section_content,
              start_pos |-> start_pos,
              end_pos |-> end_pos,
              page_number |-> Max(1, start_pos \div CharsPerPage),
              subsections |-> IdentifySubsections(section_content, ms[i].section_id)]]

\* ------------------------------------------------------------------ requirements

MinSentenceLen == 20
MinCleanLen == 30
MaxRequirements == 10
PrefixLen == 50

\* The unit contains a word of requirement_patterns (shall, must, will, ...).
Oblig(u) == u.k \in {"req", "brief"}

\* _has_requirements(text)
HasRequirements(t) == \E i \in 1..Len(t) : Oblig(t[i])

\* re.split(r'[.!?]+', text) cuts a dotted heading after its first character:
\* the head closes the running sentence, the tail opens the next one.
RECURSIVE Pieces(_)
Pieces(t) ==
  IF t = <<>> THEN <<>>
  ELSE (IF DotHead(Head(t))
        THEN <<[u |-> Head(t), part |-> "head"], [u |-> Head(t), part |-> "tail"]>>
        ELSE <<[u |-> Head(t), part |-> "all"]>>) \o Pieces(Tail(t))

PTerm(p) == p.part = "head" \/ (p.part = "all" /\ Term(p.u))
PWs(p) == IsWs(p.u)
POblig(p) == p.part = "all" /\ Oblig(p.u)

\* Characters of the piece without trailing white space and terminator.
PTextLen(p) ==
  CASE p.part = "head" -> 1
    [] p.part = "tail" -> TextLen(p.u) - 2
    [] OTHER -> TextLen(p.u) - (IF Term(p.u) THEN 1 ELSE 0)

\* Characters of the piece with its trailing white space.
PRawLen(p) == IF p.part = "tail" THEN CharLen(p.u) - 2 ELSE CharLen(p.u)

\* The sentences of a piece list: cur is the sentence being read.
RECURSIVE SplitSentences(_, _)
SplitSentences(ps, cur) ==
  IF ps = <<>> THEN <<cur>>
  ELSE IF PTerm(Head(ps)) THEN <<Append(cur, Head(ps))>> \o SplitSentences(Tail(ps), <<>>)
  ELSE SplitSentences(Tail(ps), Append(cur, Head(ps)))

RECURSIVE PDropLeadWs(_)
PDropLeadWs(ps) ==
  IF ps = <<>> THEN <<>> ELSE IF PWs(Head(ps)) THEN PDropLeadWs(Tail(ps)) ELSE ps

RECURSIVE PDropTrailWs(_)
PDropTrailWs(ps) ==
  IF ps = <<>> THEN <<>>
  ELSE IF PWs(ps[Len(ps)]) THEN PDropTrailWs(SubSeq(ps, 1, Len(ps) - 1)) ELSE ps

\* sentence.strip()
PStrip(ps) == PDropTrailWs(PDropLeadWs(ps))

RECURSIVE PRawSum(_)
PRawSum(ps) == IF ps = <<>> THEN 0 ELSE PRawLen(Head(ps)) + PRawSum(Tail(ps))

\* len(sentence) of a stripped sentence
SentenceLen(ps) ==
  IF ps = <<>> THEN 0
  ELSE PRawSum(SubSeq(ps, 1, Len(ps) - 1)) + PTextLen(ps[Len(ps)])

\* re.sub(r'\s+', ' ', sentence).strip(): the pieces without the white space
\* between them, each named by its line.
CleanReq(ps) ==
  LET words == SelectSeq(ps, LAMBDA p : ~PWs(p))
  IN  [i \in 1..Len(words) |->
         [k |-> words[i].u.k, s |-> words[i].u.s, n |-> words[i].u.n,
          part |-> words[i].part, len |-> PTextLen(words[i])]]

RECURSIVE CleanSum(_)
CleanSum(r) == IF r = <<>> THEN 0 ELSE Head(r).len + CleanSum(Tail(r))

\* len(clean_req): the pieces and one blank between neighbours
CleanLen(r) == IF r = <<>> THEN 0 ELSE CleanSum(r) + (Len(r) - 1)

RECURSIVE RequirementsOf(_)
RequirementsOf(sentences) ==
  IF sentences = <<>> THEN <<>>
  ELSE LET sentence == PStrip(Head(sentences))
           clean_req == CleanReq(sentence)
           rest == RequirementsOf(Tail(sentences))
       IN  IF SentenceLen(sentence) < MinSentenceLen THEN rest
           ELSE IF (\E i \in 1..Len(sentence) : POblig(sentence[i]))
                   /\ clean_req # <<>> /\ CleanLen(clean_req) > MinCleanLen
                THEN <<clean_req>> \o rest
           ELSE rest

\* Variant of FirstN: the whole list.
Uncapped(q, n) == q

\* q[:n]
FirstN(q, n) == SubSeq(q, 1, IF Len(q) < n THEN Len(q) ELSE n)

\* _extract_requirements(text)
ExtractRequirements(t) ==
  FirstN(RequirementsOf(SplitSentences(Pieces(t), <<>>)), MaxRequirements)

\* content.find(req[:50]): -1 when the first 50 characters of the requirement
\* run over white space that the clean-up has collapsed, else the offset of the
\* first line of the content that carries the requirement's first words.
Find(content, req) ==
  LET first == req[1]
      hits == {i \in 1..Len(content) :
                 /\ content[i].k = first.k /\ content[i].s = first.s
                 /\ content[i].n = first.n}
  IN  IF (Len(req) > 1 /\ first.len < PrefixLen) \/ hits = {} THEN -1
      ELSE Offset(content, CHOOSE i \in hits : \A j \in hits : i <= j)
           + (IF first.part = "tail" THEN 2 ELSE 0)

\* ------------------------------------------------------------------ chunks

DigitStr == <<"0", "1", "2", "3", "4", "5", "6", "7", "8", "9">>

\* f"chunk_{chunk_counter:04d}" for counters below 10000
ChunkId(c) ==
  <<"chunk_", DigitStr[((c \div 1000) % 10) + 1], DigitStr[((c \div 100) % 10) + 1],
    DigitStr[((c \div 10) % 10) + 1], DigitStr[(c % 10) + 1]>>

NoChunkId == <<>>

\* Variant of MappingGet: every chunk starts from an empty list of its own.
EmptyMapping(table, base) == [alias |-> "", own |-> <<>>]

\* relationship_mappings.get(base, []): the list object of the table itself
\* (alias names its key), or a new empty list.  own is the list a chunk owns.
MappingGet(table, base) ==
  IF base \in DOMAIN table THEN [alias |-> base, own |-> <<>>]
  ELSE [alias |-> "", own |-> <<>>]

ContextBefore == 200
MaxRequirementsPerChunk == 3
DensityThreshold == 5

\* The requirements that content.find locates, with their offsets.
RECURSIVE RequirementPositions(_, _)
RequirementPositions(content, reqs) ==
  IF reqs = <<>> THEN <<>>
  ELSE (IF Find(content, Head(reqs)) # -1
        THEN <<[start |-> Find(content, Head(reqs)), req |-> Head(reqs)]>>
        ELSE <<>>) \o RequirementPositions(content, Tail(reqs))

\* Groups of max_requirements_per_chunk located requirements, the last one
\* possibly shorter.
RECURSIVE GroupsOf(_, _)
GroupsOf(rp, size) ==
  IF rp = <<>> THEN <<>>
  ELSE IF Len(rp) <= size THEN <<rp>>
  ELSE <<SubSeq(rp, 1, size)>> \o GroupsOf(SubSeq(rp, size + 1, Len(rp)), size)

\* split_by_requirements(content, section_id, section_title, subsection_id, 3)
SplitByRequirements(table, content, section_id, subsection_id, max_requirements_per_chunk) ==
  LET all_requirements == ExtractRequirements(content)
      requirement_positions == SortByStart(RequirementPositions(content, all_requirements))
      req_groups == GroupsOf(requirement_positions, max_requirements_per_chunk)
  IN  IF Len(all_requirements) <= DensityThreshold THEN <<>>
      ELSE [g \in 1..Len(req_groups) |->
              LET start_pos == req_groups[g][1].start
                  end_pos == IF g < Len(req_groups) THEN req_groups[g + 1][1].start
                             ELSE StrLen(content)
                  context_before == Max(0, start_pos - ContextBefore)
              IN  [chunk_id |-> NoChunkId,
                   content |-> Strip(Slice(content, context_before, end_pos)),
                   section_id |-> section_id,
                   subsection_id |-> subsection_id,
                   chunk_order |-> 0,
                   relationships |-> MappingGet(table, BaseOf(section_id)),
                   page_number |-> 0,
                   metadata |-> [section_type |-> "requirement_split",
                                 split_reason |-> "high_requirement_density",
                                 requirements_in_chunk |-> Len(req_groups[g]),
                                 total_requirements_in_section |-> Len(all_requirements),
                                 chunk_part |-> <<g, Len(req_groups)>>,
                                 has_requirements |-> TRUE],
                   requirements |-> [i \in 1..Len(req_groups[g]) |-> req_groups[g][i].req]]]

\* Variant of Paragraphs: the content is one paragraph.
OneParagraph(t, cur) == <<t>>

\* re.split(r'\n\s*\n', content): a run of blank lines, with the newline that
\* ends the line before it, separates two paragraphs.
RECURSIVE Paragraphs(_, _)
Paragraphs(t, cur) ==
  IF t = <<>> THEN (IF cur = <<>> THEN <<>> ELSE <<cur>>)
  ELSE IF Head(t).k = "blank" /\ cur # <<>>
       THEN <<[cur EXCEPT ![Len(cur)] = [cur[Len(cur)] EXCEPT !.cut = 1]]>>
            \o Paragraphs(DropLeadWs(t), <<>>)
  ELSE Paragraphs(Tail(t), Append(cur, Head(t)))

PartialChunk(current_chunk, chunk_parts, section_id, subsection_id, relationships, page_number) ==
  [chunk_id |-> NoChunkId,
   content |-> Strip(current_chunk),
   section_id |-> section_id,
   subsection_id |-> subsection_id,
   chunk_order |-> 0,
   relationships |-> relationships,
   page_number |-> page_number,
   metadata |-> [section_type |-> "partial_section",
                 paragraph_count |-> chunk_parts,
                 has_requirements |-> HasRequirements(current_chunk)],
   requirements |-> ExtractRequirements(current_chunk)]

\* The paragraph loop of _split_large_content: current_chunk is the buffer,
\* chunk_parts the number of paragraphs in it.
RECURSIVE SplitLoop(_, _, _, _, _, _, _, _)
SplitLoop(paragraphs, current_chunk, chunk_parts, max_size, section_id, subsection_id, relationships, page_number) ==
  IF paragraphs = <<>>
  THEN IF Strip(current_chunk) # <<>>
       THEN <<PartialChunk(current_chunk, chunk_parts, section_id, subsection_id,
                           relationships, page_number)>>
       ELSE <<>>
  ELSE LET paragraph == Head(paragraphs)
       IN  IF StrLen(current_chunk \o paragraph) <= max_size
           THEN SplitLoop(Tail(paragraphs), current_chunk \o paragraph \o <<NL2>>,
                          chunk_parts + 1, max_size, section_id, subsection_id,
                          relationships, page_number)
           ELSE (IF Strip(current_chunk) # <<>>
                 THEN <<PartialChunk(current_chunk, chunk_parts, section_id, subsection_id,
                                     relationships, page_number)>>
                 ELSE <<>>)
                \o SplitLoop(Tail(paragraphs), paragraph \o <<NL2>>, 1, max_size,
                             section_id, subsection_id, relationships, page_number)

\* Variant of SplitLargeContent: the paragraphs are counted but never split off.
Unsplit(content, max_size, section_id, subsection_id, relationships, page_number) ==
  <<PartialChunk(content, Len(Paragraphs(content, <<>>)), section_id, subsection_id,
                 relationships, page_number)>>

\* _split_large_content(content, max_size, section_id, section_title,
\*                      subsection_id, relationships, page_number)
SplitLargeContent(content, max_size, section_id, subsection_id, relationships, page_number) ==
  SplitLoop(Paragraphs(content, <<>>), <<>>, 0, max_size, section_id, subsection_id,
            relationships, page_number)

\* Variant of Numbered: every splitter result is numbered from zero.
NumberedFromZero(cs, chunk_counter) ==
  [i \in 1..Len(cs) |->
     [cs[i] EXCEPT !.chunk_id = ChunkId(i - 1), !.chunk_order = i - 1]]

\* The caller's numbering of the chunks a splitter returned: chunk_id and
\* chunk_order from chunk_counter on.
Numbered(cs, chunk_counter) ==
  [i \in 1..Len(cs) |->
     [cs[i] EXCEPT !.chunk_id = ChunkId(chunk_counter + i - 1),
                   !.chunk_order = chunk_counter + i - 1]]

\* Variant of SubsectionChunks: the section is split by paragraphs whether it
\* has subsections or not.
ParagraphsOnly(section, s, chunk_counter, max_chunk_size, relationships, acc) ==
  Numbered(SplitLargeContent(section.content, max_chunk_size, section.section_id,
                             NoSubsection, relationships, section.page_number),
           chunk_counter)

\* The chunks of the subsections from s on (the large-section branch).
RECURSIVE SubsectionChunks(_, _, _, _, _, _)
SubsectionChunks(section, s, chunk_counter, max_chunk_size, relationships, acc) ==
  IF s > Len(section.subsections) THEN acc
  ELSE LET subsection == section.subsections[s]
           new ==
             IF StrLen(subsection.content) <= max_chunk_size
             THEN <<[chunk_id |-> ChunkId(chunk_counter),
                     content |-> subsection.content,
                     section_id |-> section.section_id,
                     subsection_id |-> subsection.subsection_id,
                     chunk_order |-> chunk_counter,
                     relationships |-> relationships,
                     page_number |-> section.page_number,
                     metadata |-> [section_type |-> "subsection",
                                   subsection_title |-> subsection.title,
                                   has_requirements |-> HasRequirements(subsection.content)],
                     requirements |-> ExtractRequirements(subsection.content)]>>
             ELSE Numbered(SplitLargeContent(subsection.content, max_chunk_size,
                                             section.section_id, subsection.subsection_id,
                                             relationships, section.page_number),
                           chunk_counter)
       IN  SubsectionChunks(section, s + 1, chunk_counter + Len(new), max_chunk_size,
                            relationships, acc \o new)

\* One iteration of the loop of create_contextual_chunks.
SectionChunks(table, section, chunk_counter, max_chunk_size) ==
  LET relationships == MappingGet(table, BaseOf(section.section_id))
      requirements == ExtractRequirements(section.content)
      use_requirement_splitting == Len(requirements) > DensityThreshold
  IN  IF use_requirement_splitting
      THEN LET req_chunks == SplitByRequirements(table, section.content, section.section_id,
                                                 NoSubsection, MaxRequirementsPerChunk)
           IN  [i \in 1..Len(req_chunks) |->
                  [req_chunks[i] EXCEPT !.chunk_id = ChunkId(chunk_counter + i - 1),
                                        !.chunk_order = chunk_counter + i - 1,
                                        !.page_number = section.page_number]]
      ELSE IF StrLen(section.content) <= max_chunk_size
      THEN <<[chunk_id |-> ChunkId(chunk_counter),
              content |-> section.content,
              section_id |-> section.section_id,
              subsection_id |-> NoSubsection,
              chunk_order |-> chunk_counter,
              relationships |-> relationships,
              page_number |-> section.page_number,
              metadata |-> [section_type |-> "complete_section",
                            subsection_count |-> Len(section.subsections),
                            has_requirements |-> HasRequirements(section.content)],
              requirements |-> requirements]>>
      ELSE IF section.subsections # <<>>
      THEN SubsectionChunks(section, 1, chunk_counter, max_chunk_size, relationships, <<>>)
      ELSE Numbered(SplitLargeContent(section.content, max_chunk_size, section.section_id,
                                      NoSubsection, relationships, section.page_number),
                    chunk_counter)

RECURSIVE CreateFrom(_, _, _, _, _)
CreateFrom(table, secs, i, max_chunk_size, acc) ==
  IF i > Len(secs) THEN acc
  ELSE CreateFrom(table, secs, i + 1, max_chunk_size,
                  acc \o SectionChunks(table, secs[i], Len(acc), max_chunk_size))

\* create_contextual_chunks(sections, max_chunk_size)
CreateContextualChunks(table, secs, max_chunk_size) ==
  CreateFrom(table, secs, 1, max_chunk_size, <<>>)

\* ------------------------------------------------------------------ cross-references

Range(q) == {q[i] : i \in 1..Len(q)}

\* section_index[base]: the chunk ids of the chunks of that base label.
SectionIndex(cs, base) ==
  LET at == SelectSeq(cs, LAMBDA c : BaseOf(c.section_id) = base)
  IN  [i \in 1..Len(at) |-> at[i].chunk_id]

InIndex(cs, base) == \E i \in 1..Len(cs) : BaseOf(cs[i].section_id) = base

\* Variant of Extension: the ids of the chunks of every section whose label the
\* chunk's own list holds.
ExtensionByLabel(cs, chunk) ==
  LET own == chunk.relationships.own
      ids(k) == IF Len(own[k]) = 1 /\ InIndex(cs, own[k][1])
                THEN SectionIndex(cs, own[k][1]) ELSE <<>>
      RECURSIVE upto(_)
      upto(k) == IF k = 0 THEN <<>> ELSE upto(k - 1) \o ids(k)
  IN  upto(Len(own))

\* The ids one chunk's content-triggered extend calls append, in call order.
Extension(cs, chunk) ==
  LET base_section == BaseOf(chunk.section_id)
      when(kw, target) ==
        IF Contains(chunk.content, kw) /\ InIndex(cs, target)
        THEN SectionIndex(cs, target) ELSE <<>>
  IN  IF base_section = "L" /\ chunk.subsection_id # NoSubsection
      THEN when("evaluat", "M")
      ELSE IF base_section = "M" /\ chunk.subsection_id # NoSubsection
      THEN when("instruction", "L")
      ELSE IF base_section = "C"
      THEN when("clin", "B") \o when("performance", "F")
      ELSE <<>>

\* list(set(q)): every member once.  Python leaves the order of the new list
\* open; the model keeps the order of first occurrence.
RECURSIVE ListSet(_)
ListSet(q) ==
  IF q = <<>> THEN <<>>
  ELSE LET front == ListSet(SubSeq(q, 1, Len(q) - 1))
       IN  IF q[Len(q)] \in Range(front) THEN front ELSE Append(front, q[Len(q)])

\* q.remove(x) for x in q: the first occurrence goes.
RECURSIVE Remove(_, _)
Remove(q, x) ==
  IF q = <<>> THEN <<>>
  ELSE IF Head(q) = x THEN Tail(q) ELSE <<Head(q)>> \o Remove(Tail(q), x)

\* Variant of CleanUp: the list stays as the extend calls left it.
NoCleanUp(q, chunk_id) == q

\* The clean-up that ends the loop body: duplicates and the self-reference go.
CleanUp(q, chunk_id) ==
  LET unique == ListSet(q)
  IN  IF chunk_id \in Range(unique) THEN Remove(unique, chunk_id) ELSE unique

\* The second loop of _add_cross_references from chunk i on.  extend appends to
\* the list the chunk refers to, which is the table's own list while the chunk
\* still holds the alias; list(set(...)) then gives the chunk a list of its own.
RECURSIVE CrossReferenceLoop(_, _, _)
CrossReferenceLoop(table, cs, i) ==
  IF i > Len(cs) THEN [table |-> table, chunks |-> cs]
  ELSE LET chunk == cs[i]
           ext == Extension(cs, chunk)
           alias == chunk.relationships.alias
           table2 == IF alias # "" THEN [table EXCEPT ![alias] = @ \o ext] ELSE table
           extended == IF alias # "" THEN table2[alias]
                       ELSE chunk.relationships.own \o ext
           done == [chunk EXCEPT !.relationships =
                      [alias |-> "", own |-> CleanUp(extended, chunk.chunk_id)]]
       IN  CrossReferenceLoop(table2, [cs EXCEPT ![i] = done], i + 1)

\* _add_cross_references(chunks)
AddCrossReferencesOf(table, cs) == CrossReferenceLoop(table, cs, 1)

\* process_document(document_text, max_chunk_size)
ProcessDocumentOf(table, t, size) ==
  LET secs == IdentifySections(t)
      created == CreateContextualChunks(table, secs, size)
      linked == AddCrossReferencesOf(table, created)
  IN  [sections |-> secs, chunks |-> linked.chunks, table |-> linked.table]

\* ------------------------------------------------------------------ inputs

MaxSections == 2
MaxReqLines == 7
MaxRuns == 2
MaxPasses == 2

\* The size budgets tried: between two and three lines, and between four and five.
Sizes == {250, 450}

Hdr(s) == U("hdr", s, 0)
Txt(kw) == U("txt", kw, 1)
Sen == U("sen", "", 1)
ReqLines(n) == [i \in 1..n |-> U("req", "", i)]

\* The building blocks of the documents: a heading with a body, or text without
\* a heading.
LinkParts ==
  {<<Hdr("C"), Txt(""), Blank, Txt("clin"), Blank, Txt("performance")>>,
   <<Hdr("B"), Txt("")>>,
   <<Hdr("L"), U("sub", "L", 1), Txt(""), Txt(""), U("sub", "L", 2), Txt("evaluat"), Txt("")>>,
   <<Hdr("L"), Txt("evaluat")>>,
   <<Hdr("M"), Txt("")>>}

Parts ==
  LinkParts
  \cup {<<Txt("")>>,
        <<Hdr("L"), Txt(""), Blank, Blank, Txt("evaluat"), Txt(""), Txt("")>>,
        <<Hdr("M"), U("sub", "M", 1), Txt("instruction"), Txt(""), Txt(""), Txt("")>>,
        <<Hdr("F"), Sen>>,
        <<Hdr("C"), Txt("clin"), Blank, Txt(""), Txt("")>>,
        <<Hdr("M"), U("num", "", 1), Txt(""), U("sub", "M", 1)>>,
        <<U("att", "", 1), Txt("")>>}

\* n obligation sentences, each on the line after the item number it belongs
\* to: "(i) <words>" and then the sentence.
RECURSIVE ItemisedReqs(_)
ItemisedReqs(n) ==
  IF n = 0 THEN <<>> ELSE ItemisedReqs(n - 1) \o <<U("item", "", n), U("req", "", n)>>

\* Sections of obligation sentences, with and without a sentence between the
\* heading and the first of them, after a heading that ends a sentence, and
\* with every sentence begun by a short line.
DenseParts ==
  {<<Hdr("C"), Sen>> \o ReqLines(n) : n \in DensityThreshold..MaxReqLines}
  \cup {<<Hdr("C")>> \o ReqLines(n) : n \in (DensityThreshold + 1)..MaxReqLines}
  \cup {<<U("hdr", "C", 1)>> \o ReqLines(MaxReqLines)}
  \cup {<<Hdr("C")>> \o ItemisedReqs(DensityThreshold + 1)}

\* What stands before and after such a section.
Around ==
  {<<>>,
   <<Hdr("B"), Txt("clin")>>,
   <<Hdr("L"), Txt(""), Blank, Blank, Txt("evaluat"), Txt(""), Txt("")>>}

RECURSIVE Flatten(_)
Flatten(ps) == IF ps = <<>> THEN <<>> ELSE Head(ps) \o Flatten(Tail(ps))

\* The documents a new chunker instance is tried on: up to MaxSections parts,
\* or a section of obligation sentences and what stands around it.
Docs ==
  {Flatten(ps) : ps \in UNION {[1..n -> Parts] : n \in 0..MaxSections}}
  \cup {a \o p \o b : a \in Around, p \in DenseParts, b \in Around}

\* The documents a chunker instance that lives across calls is given: one or
\* two of the parts whose chunks refer to each other.
SeriesDocs == LinkParts \cup {a \o b : a, b \in LinkParts}

\* Documents for a chunker that is also asked for the requirements of texts:
\* one with a statement of work that names line items, one without.
TableDocs ==
  {<<Hdr("C"), Txt("clin"), Hdr("B"), Txt("")>>,
   <<Hdr("M"), Txt("")>>}

Brief == U("brief", "", 1)

\* The lines of the texts given to _extract_requirements.
TextLines == {U("req", "", 1), U("req", "", 2), Brief, Sen, Txt(""), Blank, U("sub", "C", 1)}

\* The texts: up to two lines, and runs of obligation sentences up to one
\* more than the method returns, alone and after a short one.
Texts ==
  UNION {[1..n -> TextLines] : n \in 0..2}
  \cup {h \o ReqLines(n) : h \in {<<>>, <<Brief>>}, n \in 4..(MaxRequirements + 1)}

\* ------------------------------------------------------------------ ontology

\* A string of the schema: the word w spelled in casing c ("U" upper case,
\* "l" lower case, "m" mixed).
Str(w, c) == [w |-> w, c |-> c]

\* Variant of Upper: the string as it was given.
AsGiven(x) == x

\* str.upper()
Upper(x) == [x EXCEPT !.c = "U"]

\* str.lower()
Lower(x) == [x EXCEPT !.c = "l"]

Words(ws) == [i \in 1..Len(ws) |-> Str(ws[i], "U")]

Entry(source, relation, targets) ==
  [source |-> Str(source, "U"), relation |-> Str(relation, "U"), targets |-> Words(targets)]

\* class EntityType: the names of its members (each value is its name).
EntityType ==
  {"ORGANIZATION", "CONCEPT", "EVENT", "TECHNOLOGY", "PERSON", "LOCATION", "REQUIREMENT",
   "CLAUSE", "SECTION", "DOCUMENT"}

\* class RelationshipType: the names of its members (each value is its name in
\* lower case).
RelationshipType ==
  {"REFERENCES", "DEPENDS_ON", "EVALUATES", "SUPPORTS", "REQUIRES", "DEFINES", "IMPLEMENTS",
   "VALIDATES", "SPECIFIES", "CONTAINS", "CITES", "DELIVERED_BY", "PERFORMED_AT",
   "RESPONSIBLE_FOR", "APPLIES_TO"}

\* The dict literal VALID_RELATIONSHIPS, in the order of its items.
InitialValidRelationships ==
  <<Entry("SECTION", "REFERENCES", <<"SECTION", "REQUIREMENT", "CLAUSE", "DOCUMENT">>),
    Entry("SECTION", "DEPENDS_ON", <<"SECTION", "REQUIREMENT">>),
    Entry("SECTION", "EVALUATES", <<"SECTION", "REQUIREMENT", "CONCEPT">>),
    Entry("SECTION", "SUPPORTS", <<"SECTION", "REQUIREMENT">>),
    Entry("SECTION", "REQUIRES", <<"REQUIREMENT", "DOCUMENT", "CLAUSE">>),
    Entry("SECTION", "CONTAINS", <<"REQUIREMENT", "CONCEPT", "CLAUSE">>),
    Entry("REQUIREMENT", "REFERENCES", <<"SECTION", "CLAUSE", "DOCUMENT", "REQUIREMENT">>),
    Entry("REQUIREMENT", "DEPENDS_ON", <<"REQUIREMENT", "CONCEPT", "TECHNOLOGY">>),
    Entry("REQUIREMENT", "REQUIRES", <<"TECHNOLOGY", "CONCEPT", "ORGANIZATION">>),
    Entry("REQUIREMENT", "SPECIFIES", <<"CONCEPT", "TECHNOLOGY", "EVENT">>),
    Entry("REQUIREMENT", "APPLIES_TO", <<"SECTION", "ORGANIZATION", "TECHNOLOGY">>),
    Entry("ORGANIZATION", "IMPLEMENTS", <<"REQUIREMENT", "TECHNOLOGY">>),
    Entry("ORGANIZATION", "RESPONSIBLE_FOR", <<"REQUIREMENT", "EVENT", "CONCEPT">>),
    Entry("ORGANIZATION", "DELIVERS", <<"CONCEPT", "TECHNOLOGY", "DOCUMENT">>),
    Entry("ORGANIZATION", "PERFORMED_AT", <<"LOCATION">>),
    Entry("CLAUSE", "APPLIES_TO", <<"SECTION", "REQUIREMENT", "ORGANIZATION">>),
    Entry("CLAUSE", "REFERENCES", <<"CLAUSE", "DOCUMENT", "SECTION">>),
    Entry("CLAUSE", "REQUIRES", <<"REQUIREMENT", "CONCEPT">>),
    Entry("CONCEPT", "DEFINED_BY", <<"SECTION", "REQUIREMENT", "DOCUMENT">>),
    Entry("CONCEPT", "DEPENDS_ON", <<"CONCEPT", "TECHNOLOGY", "REQUIREMENT">>),
    Entry("CONCEPT", "IMPLEMENTS", <<"REQUIREMENT">>),
    Entry("CONCEPT", "SPECIFIES", <<"TECHNOLOGY", "EVENT">>),
    Entry("EVENT", "REQUIRES", <<"CONCEPT", "DOCUMENT", "TECHNOLOGY">>),
    Entry("EVENT", "DEPENDS_ON", <<"EVENT", "REQUIREMENT">>),
    Entry("EVENT", "DELIVERED_BY", <<"ORGANIZATION">>),
    Entry("EVENT", "PERFORMED_AT", <<"LOCATION">>),
    Entry("TECHNOLOGY", "IMPLEMENTS", <<"REQUIREMENT", "CONCEPT">>),
    Entry("TECHNOLOGY", "SUPPORTS", <<"REQUIREMENT", "CONCEPT">>),
    Entry("TECHNOLOGY", "DEPENDS_ON", <<"TECHNOLOGY", "CONCEPT">>),
    Entry("PERSON", "RESPONSIBLE_FOR", <<"REQUIREMENT", "EVENT", "CONCEPT">>),
    Entry("PERSON", "REPRESENTS", <<"ORGANIZATION">>),
    Entry("DOCUMENT", "REFERENCES", <<"SECTION", "REQUIREMENT", "CLAUSE", "DOCUMENT">>),
    Entry("DOCUMENT", "SUPPORTS", <<"SECTION", "REQUIREMENT">>),
    Entry("DOCUMENT", "DEFINES", <<"CONCEPT", "REQUIREMENT">>),
    Entry("LOCATION", "HOSTS", <<"EVENT", "ORGANIZATION">>)>>

\* key in VALID_RELATIONSHIPS, for key = (source, relation)
HasKey(table, source, relation) ==
  \E i \in 1..Len(table) : table[i].source = source /\ table[i].relation = relation

\* VALID_RELATIONSHIPS.get(key, [])
TargetsOf(table, source, relation) ==
  IF HasKey(table, source, relation)
  THEN table[CHOOSE i \in 1..Len(table) :
               table[i].source = source /\ table[i].relation = relation].targets
  ELSE <<>>

\* x in q, for a list q
Member(x, q) == \E i \in 1..Len(q) : q[i] = x

\* is_valid_relationship(source_entity_type, relationship_type, target_entity_type)
IsValidRelationship(table, source_entity_type, relationship_type, target_entity_type) ==
  LET source == Upper(source_entity_type)
      target == Upper(target_entity_type)
      relation == Lower(relationship_type)
  IN  IF ~HasKey(table, source, Upper(relation)) THEN FALSE
      ELSE Member(target, TargetsOf(table, source, Upper(relation)))

\* Variant of ItemsOf: the items of every source.
RECURSIVE AllItems(_, _)
AllItems(table, entity) ==
  IF table = <<>> THEN <<>>
  ELSE <<[relation |-> Head(table).relation, targets |-> Head(table).targets]>>
       \o AllItems(Tail(table), entity)

\* The loop of get_valid_relationships_for_entity: the items of the table whose
\* source is the entity, in table order (result[relation] = targets).
RECURSIVE ItemsOf(_, _)
ItemsOf(table, entity) ==
  IF table = <<>> THEN <<>>
  ELSE (IF Head(table).source = entity
        THEN <<[relation |-> Head(table).relation, targets |-> Head(table).targets]>>
        ELSE <<>>) \o ItemsOf(Tail(table), entity)

\* get_valid_relationships_for_entity(entity_type)
GetValidRelationshipsForEntity(table, entity_type) == ItemsOf(table, Upper(entity_type))

\* list(valid_rels.keys())
KeysOf(valid_rels) == [i \in 1..Len(valid_rels) |-> valid_rels[i].relation]

\* valid_rels.get(relation, [])
ItemGet(valid_rels, relation) ==
  IF \E i \in 1..Len(valid_rels) : valid_rels[i].relation = relation
  THEN valid_rels[CHOOSE i \in 1..Len(valid_rels) : valid_rels[i].relation = relation].targets
  ELSE <<>>

None == [none |-> TRUE]

\* The error message validate_knowledge_graph_relationship builds from
\* valid_rels: its wording and the values it is formatted with.
ErrorMessage(valid_rels, source_name, source_type, relationship, target_name, target_type) ==
  IF ~Member(Upper(relationship), [i \in 1..Len(valid_rels) |-> Upper(KeysOf(valid_rels)[i])])
  THEN [text |-> "Invalid relationship for entity type",
        relationship |-> relationship,
        source_type |-> source_type,
        valid |-> KeysOf(valid_rels)]
  ELSE [text |-> "Invalid target type for relationship",
        target_type |-> target_type,
        source_name |-> source_name,
        relationship |-> relationship,
        target_name |-> target_name,
        valid |-> ItemGet(valid_rels, Upper(relationship))]

\* validate_knowledge_graph_relationship(source_name, source_type, relationship,
\*                                       target_name, target_type)
ValidateKnowledgeGraphRelationship(table, source_name, source_type, relationship, target_name, target_type) ==
  IF IsValidRelationship(table, source_type, relationship, target_type)
  THEN <<TRUE, None>>
  ELSE <<FALSE, ErrorMessage(GetValidRelationshipsForEntity(table, source_type),
                             source_name, source_type, relationship, target_name,
                             target_type)>>

\* get_compatible_entity_types(entity_type, relationship_type)
GetCompatibleEntityTypes(table, entity_type, relationship_type) ==
  TargetsOf(table, Upper(entity_type), Upper(relationship_type))

\* The keys of RELATIONSHIP_IMPORTANCE and the strings they are compared with
\* are sequences of pieces: words, ":" and "->".
InitialRelationshipImportance ==
  <<[key |-> <<"SECTION", ":", "L", "->", "SECTION", ":", "M">>, value |-> "critical"],
    [key |-> <<"SECTION", ":", "M", "->", "SECTION", ":", "L">>, value |-> "critical"],
    [key |-> <<"SECTION", ":", "L", "->", "REQUIREMENT">>, value |-> "critical"],
    [key |-> <<"SECTION", ":", "M", "->", "REQUIREMENT">>, value |-> "critical"],
    [key |-> <<"SECTION", ":", "I", "->", "CLAUSE">>, value |-> "important"],
    [key |-> <<"SECTION", ":", "C", "->", "REQUIREMENT">>, value |-> "important"],
    [key |-> <<"REQUIREMENT", "->", "CLAUSE">>, value |-> "important"],
    [key |-> <<"ORGANIZATION", "->", "REQUIREMENT">>, value |-> "important"],
    [key |-> <<"SECTION", ":", "J", "->", "DOCUMENT">>, value |-> "informational"],
    [key |-> <<"DOCUMENT", "->", "SECTION">>, value |-> "informational"]>>

\* Variant of InImportance: no key is found.
NoEntry(importance, key) == FALSE

\* key in RELATIONSHIP_IMPORTANCE
InImportance(importance, key) == \E i \in 1..Len(importance) : importance[i].key = key

\* RELATIONSHIP_IMPORTANCE[key]
ImportanceOf(importance, key) ==
  importance[CHOOSE i \in 1..Len(importance) : importance[i].key = key].value

\* assess_relationship_importance(source_type, source_id, relationship,
\*                                target_type, target_id)
AssessRelationshipImportance(importance, source_type, source_id, relationship, target_type, target_id) ==
  LET key == source_type \o <<":">> \o source_id \o <<"->">> \o target_type \o <<":">> \o target_id
      general_key == source_type \o <<"->">> \o target_type
  IN  IF InImportance(importance, key) THEN ImportanceOf(importance, key)
      ELSE IF InImportance(importance, general_key) THEN ImportanceOf(importance, general_key)
      ELSE IF source_id = <<"L">> /\ target_id = <<"M">> THEN "critical"
      ELSE IF source_id = <<"M">> /\ target_id = <<"L">> THEN "critical"
      ELSE IF source_id = <<"I">> \/ target_id = <<"I">> THEN "important"
      ELSE IF source_id = <<"C">> /\ target_id \in {<<"B">>, <<"F">>, <<"M">>} THEN "important"
      ELSE "informational"

\* The callers of the ontology module.
MaxCallers == 2
Callers == 1..MaxCallers

Casings == {"U", "l", "m"}
In(words) == {Str(w, c) : w \in words, c \in Casings}

\* Entity types and relations with and without schema entries.
SourceTypes == In({"SECTION", "PERSON", "ORGANIZATION", "WIDGET"})
RelationTypes == In({"REFERENCES", "CONTAINS", "RESPONSIBLE_FOR", "DELIVERS", "LINKS"})
TargetTypes == In({"SECTION", "REQUIREMENT", "EVENT", "ORGANIZATION", "WIDGET"})

SourceName == Str("Section L", "m")
TargetName == Str("REQ-001", "U")

\* Types and identifiers given to assess_relationship_importance.
TypePieces ==
  {<<"SECTION">>, <<"DOCUMENT">>, <<"REQUIREMENT">>, <<"CLAUSE">>, <<"section">>,
   <<"SECTION", ":", "L">>}
IdPieces == {<<"L">>, <<"M">>, <<"I">>, <<"C">>, <<"B">>, <<"J">>, <<"X">>}

CallOf(fn, args) == [fn |-> fn, args |-> args]

\* The calls a single caller is tried with.
OntologyCalls ==
  {CallOf("is_valid_relationship", <<s, r, t>>) :
     s \in SourceTypes, r \in RelationTypes, t \in TargetTypes}
  \cup {CallOf("get_valid_relationships_for_entity", <<s>>) : s \in SourceTypes}
  \cup {CallOf("validate_knowledge_graph_relationship", <<SourceName, s, r, TargetName, t>>) :
          s \in SourceTypes, r \in RelationTypes, t \in TargetTypes}
  \cup {CallOf("get_compatible_entity_types", <<s, r>>) : s \in SourceTypes, r \in RelationTypes}
  \cup {CallOf("assess_relationship_importance", <<a, i, <<"references">>, b, j>>) :
          a \in TypePieces, i \in IdPieces, b \in TypePieces, j \in IdPieces}

\* The calls concurrent callers are tried with.
ConcurrentCalls ==
  {CallOf("is_valid_relationship",
          <<Str("SECTION", "U"), Str("REFERENCES", "l"), Str("REQUIREMENT", "U")>>),
   CallOf("is_valid_relationship",
          <<Str("PERSON", "U"), Str("CONTAINS", "U"), Str("SECTION", "U")>>),
   CallOf("get_valid_relationships_for_entity", <<Str("SECTION", "U")>>),
   CallOf("get_valid_relationships_for_entity", <<Str("PERSON", "l")>>),
   CallOf("validate_knowledge_graph_relationship",
          <<SourceName, Str("PERSON", "U"), Str("CONTAINS", "U"), TargetName,
            Str("SECTION", "U")>>),
   CallOf("validate_knowledge_graph_relationship",
          <<SourceName, Str("SECTION", "U"), Str("CONTAINS", "l"), TargetName,
            Str("EVENT", "U")>>),
   CallOf("get_compatible_entity_types", <<Str("SECTION", "U"), Str("REFERENCES", "U")>>),
   CallOf("assess_relationship_importance",
          <<<<"SECTION">>, <<"L">>, <<"references">>, <<"SECTION">>, <<"M">>>>)}

\* ------------------------------------------------------------------ lightrag

DefaultMaxChunkSize == 2000
NumRfpPatterns == 11
SectionWeight == 2
ManySections == 3
ManySectionsWeight == 3
MinPatternMatches == 3
MaxChunkLength == 8000

\* re.search(rfp_patterns[n-1], content_lower) finds a match in the line u.
\* Pattern 4 asks for an upper-case letter [A-M] in the lower-cased text and
\* patterns 1 and 2 for a digit, hyphen or underscore after the word.
RfpPattern(n, u) ==
  CASE n = 3 -> u.k = "phr" /\ u.n = 3
    [] n = 7 -> \/ u.k = "phr" /\ u.n = 7
                \/ u.k = "hdr" /\ u.s = "C"
                \/ u.k = "alt" /\ u.s = "C" /\ u.n = 1
    [] n = 8 -> u.k = "alt" /\ u.s = "C" /\ u.n = 2
    [] n = 9 -> u.k = "att"
    [] n = 10 -> u.k = "phr" /\ u.n = 10
    [] n = 11 -> (u.k = "hdr" /\ u.s = "I") \/ (u.k = "alt" /\ u.s = "I" /\ u.n = 1)
    [] OTHER -> FALSE

\* section_pattern r'section\s+[a-m]\s*[\.\:]' finds a match in the line u.
SectionPattern(u) == u.k = "ref"

\* len(re.findall(r'section\s+[a-m]', line))
SectionsFoundIn(u) ==
  IF u.k \in {"hdr", "ref"} \/ (u.k = "alt" /\ u.s = "A" /\ u.n = 2) THEN 1 ELSE 0

RECURSIVE SectionsFound(_)
SectionsFound(t) == IF t = <<>> THEN 0 ELSE SectionsFoundIn(Head(t)) + SectionsFound(Tail(t))

\* _detect_rfp_document(content)
DetectRfpDocument(t) ==
  LET matched == {n \in 1..NumRfpPatterns : \E i \in 1..Len(t) : RfpPattern(n, t[i])}
      structure == IF \E i \in 1..Len(t) : SectionPattern(t[i]) THEN SectionWeight ELSE 0
      many == IF SectionsFound(t) >= ManySections THEN ManySectionsWeight ELSE 0
      pattern_matches == Cardinality(matched) + structure + many
  IN  pattern_matches >= MinPatternMatches

\* The title an RFPSection carries: that of the label's entry of
\* section_patterns, or the one built from the attachment line.
SectionTitle(section_id) == <<"title", section_id.base, section_id.att>>

\* _create_enhanced_chunk_content(chunk)
CreateEnhancedChunkContent(chunk) ==
  [context_prefix |-> <<chunk.section_id, SectionTitle(chunk.section_id)>>,
   content |-> IF StrLen(chunk.content) > MaxChunkLength
               THEN Slice(chunk.content, 0, MaxChunkLength) ELSE chunk.content,
   truncated |-> StrLen(chunk.content) > MaxChunkLength]

\* {**a, **b}: the keys of both, b's value where both have the key.
Merged(a, b) ==
  [k \in DOMAIN a \cup DOMAIN b |-> IF k \in DOMAIN b THEN b[k] ELSE a[k]]

\* chunk_metadata of the conversion loop; **chunk.metadata comes last.
ChunkMetadata(chunk) ==
  Merged([chunk_id |-> chunk.chunk_id,
          section_id |-> chunk.section_id,
          section_title |-> SectionTitle(chunk.section_id),
          subsection_id |-> chunk.subsection_id,
          chunk_order |-> chunk.chunk_order,
          page_number |-> chunk.page_number,
          relationships |-> chunk.relationships.own,
          requirements_count |-> Len(chunk.requirements),
          has_requirements |-> Len(chunk.requirements) > 0,
          rfp_enhanced |-> TRUE,
          document_type |-> "rfp"],
         chunk.metadata)

\* lightrag_chunks after the conversion loop over rfp_chunks.
LightragChunks(cs) ==
  [i \in 1..Len(cs) |-> [content |-> CreateEnhancedChunkContent(cs[i]),
                         metadata |-> ChunkMetadata(cs[i])]]

\* _CHUNK_METADATA_MAP after the conversion loop from chunk i on.
RECURSIVE Registered(_, _, _)
Registered(map, cs, i) ==
  IF i > Len(cs) THEN map
  ELSE Registered((cs[i].chunk_id :> ChunkMetadata(cs[i])) @@ map, cs, i + 1)

\* The conversion loop over the chunks process_document returned: the list
\* that is returned and the module's dict after it.
Converted(map, cs) == [result |-> LightragChunks(cs), map |-> Registered(map, cs, 1)]

\* What lightrag.operate.chunking_by_token_size returns for the text: the
\* chunks of the standard strategy, which knows no sections.
ChunkingByTokenSize(t) == [standard |-> TRUE, content |-> t]

\* rfp_aware_chunking_func(tokenizer, content): the returned value and the
\* module's dict after the call.
RfpAwareChunkingFuncOf(map, t) ==
  IF DetectRfpDocument(t)
  THEN Converted(map, ProcessDocumentOf(InitialMappings, t, DefaultMaxChunkSize).chunks)
  ELSE [result |-> ChunkingByTokenSize(t), map |-> map]

\* _CHUNK_METADATA_MAP = {}
EmptyMap == <<>>

\* get_chunk_metadata(chunk_id)
GetChunkMetadata(map, chunk_id) == IF chunk_id \in DOMAIN map THEN map[chunk_id] ELSE None

MaxCalls == 2

Phr(n) == U("phr", "", n)
Ref(s) == U("ref", s, 1)

\* The building blocks of the texts given to rfp_aware_chunking_func: lines
\* that only make a text look like an RFP, and sections.
ContentParts ==
  {<<Phr(3)>>,
   <<Phr(7)>>,
   <<Ref("C")>>,
   <<Hdr("C"), Txt("clin")>>,
   <<Hdr("L"), Txt("evaluat")>>,
   <<Hdr("M"), Txt("")>>}

\* The texts: up to two of the parts, the texts of three parts that have every
\* section heading in them, and texts that look like an RFP and start with a
\* section other than C.
Contents ==
  {<<>>} \cup ContentParts \cup {a \o b : a, b \in ContentParts}
  \cup {a \o <<Hdr("C"), Txt("clin"), Hdr("L"), Txt("evaluat"), Hdr("M"), Txt("")>> :
          a \in {<<>>, <<Phr(3)>>}}
  \cup {<<Ref("C"), Phr(3)>> \o b : b \in {<<Hdr("L"), Txt("evaluat")>>, <<Hdr("M"), Txt("")>>}}

\* ------------------------------------------------------------------ actions

\* A caller that is in no call.
NoCall == [pc |-> "idle", fn |-> "", args |-> <<>>, result |-> None]

Init ==
  /\ relationship_mappings = InitialMappings
  /\ pc = "idle"
  /\ document_text = <<>>
  /\ size_limit = 0
  /\ rfp_sections = <<>>
  /\ rfp_chunks = <<>>
  /\ runs = 0
  /\ passes = 0
  /\ VALID_RELATIONSHIPS = InitialValidRelationships
  /\ RELATIONSHIP_IMPORTANCE = InitialRelationshipImportance
  /\ callers = [c \in Callers |-> NoCall]
  /\ frames = [c \in Callers |-> <<>>]
  /\ CHUNK_METADATA_MAP = EmptyMap
  /\ lightrag_content = <<>>
  /\ lightrag_chunks = None
  /\ calls = 0
  /\ extract_text = <<>>
  /\ extracted = <<>>

\* chunker.process_document(d, m)
ProcessDocument(d, m) ==
  /\ pc = "idle"
  /\ LET r == ProcessDocumentOf(relationship_mappings, d, m)
     IN  /\ rfp_sections' = r.sections
         /\ rfp_chunks' = r.chunks
         /\ relationship_mappings' = r.table
  /\ document_text' = d
  /\ size_limit' = m
  /\ pc' = "returned"
  /\ runs' = runs + 1
  /\ passes' = 0
  /\ UNCHANGED ontologyVars
  /\ UNCHANGED lightragVars
  /\ UNCHANGED extractVars

\* A further chunker._add_cross_references(chunks) pass over the returned list.
AddCrossReferences ==
  /\ pc = "returned"
  /\ passes < MaxPasses
  /\ passes' = passes + 1
  /\ LET r == AddCrossReferencesOf(relationship_mappings, rfp_chunks)
     IN  /\ rfp_chunks' = r.chunks
         /\ relationship_mappings' = r.table
  /\ UNCHANGED <<pc, document_text, size_limit, rfp_sections, runs>>
  /\ UNCHANGED ontologyVars
  /\ UNCHANGED lightragVars
  /\ UNCHANGED extractVars

\* The caller drops the result; the chunker instance stays (RFPAwareLightRAG
\* keeps self.chunker for every document it processes).
Release ==
  /\ pc = "returned"
  /\ pc' = "idle"
  /\ document_text' = <<>>
  /\ size_limit' = 0
  /\ rfp_sections' = <<>>
  /\ rfp_chunks' = <<>>
  /\ passes' = 0
  /\ UNCHANGED <<relationship_mappings, runs>>
  /\ UNCHANGED ontologyVars
  /\ UNCHANGED lightragVars
  /\ UNCHANGED extractVars


\* The next document gets a chunker of its own: ShipleyRFPChunker() as
\* rfp_aware_chunking_func constructs one per call.
NewChunker ==
  /\ pc = "returned"
  /\ relationship_mappings' = InitialMappings
  /\ pc' = "idle"
  /\ document_text' = <<>>
  /\ size_limit' = 0
  /\ rfp_sections' = <<>>
  /\ rfp_chunks' = <<>>
  /\ runs' = 0
  /\ passes' = 0
  /\ UNCHANGED ontologyVars
  /\ UNCHANGED lightragVars
  /\ UNCHANGED extractVars

\* Variant of Frame: one result for all calls.
SharedFrame(c) == 1

\* The local variable result of the call caller c is in: one per call.
Frame(c) == c

\* Caller c calls a function of the module.
Call(c, call) ==
  /\ callers[c].pc = "idle"
  /\ callers' = [callers EXCEPT ![c] = [pc |-> "called", fn |-> call.fn, args |-> call.args,
                                        result |-> None]]
  /\ UNCHANGED <<VALID_RELATIONSHIPS, RELATIONSHIP_IMPORTANCE, frames>>
  /\ UNCHANGED chunkerVars
  /\ UNCHANGED lightragVars
  /\ UNCHANGED extractVars

\* The body of is_valid_relationship, get_compatible_entity_types or
\* assess_relationship_importance runs and returns.
Compute(c) ==
  /\ callers[c].pc = "called"
  /\ callers[c].fn \in {"is_valid_relationship", "get_compatible_entity_types",
                        "assess_relationship_importance"}
  /\ LET a == callers[c].args
         r == CASE callers[c].fn = "is_valid_relationship" ->
                     IsValidRelationship(VALID_RELATIONSHIPS, a[1], a[2], a[3])
                [] callers[c].fn = "get_compatible_entity_types" ->
                     GetCompatibleEntityTypes(VALID_RELATIONSHIPS, a[1], a[2])
                [] OTHER ->
                     AssessRelationshipImportance(RELATIONSHIP_IMPORTANCE,
                                                  a[1], a[2], a[3], a[4], a[5])
     IN  callers' = [callers EXCEPT ![c].pc = "returned", ![c].result = r]
  /\ UNCHANGED <<VALID_RELATIONSHIPS, RELATIONSHIP_IMPORTANCE, frames>>
  /\ UNCHANGED chunkerVars
  /\ UNCHANGED lightragVars
  /\ UNCHANGED extractVars

\* validate_knowledge_graph_relationship calls is_valid_relationship and
\* returns (True, None), or goes on to call get_valid_relationships_for_entity.
Check(c) ==
  /\ callers[c].pc = "called"
  /\ callers[c].fn = "validate_knowledge_graph_relationship"
  /\ LET a == callers[c].args
     IN  IF IsValidRelationship(VALID_RELATIONSHIPS, a[2], a[3], a[5])
         THEN callers' = [callers EXCEPT ![c].pc = "returned", ![c].result = <<TRUE, None>>]
         ELSE callers' = [callers EXCEPT ![c].pc = "invalid"]
  /\ UNCHANGED <<VALID_RELATIONSHIPS, RELATIONSHIP_IMPORTANCE, frames>>
  /\ UNCHANGED chunkerVars
  /\ UNCHANGED lightragVars
  /\ UNCHANGED extractVars

\* get_valid_relationships_for_entity starts: result = {}
NewResult(c) ==
  /\ \/ callers[c].pc = "called" /\ callers[c].fn = "get_valid_relationships_for_entity"
     \/ callers[c].pc = "invalid"
  /\ frames' = [frames EXCEPT ![Frame(c)] = <<>>]
  /\ callers' = [callers EXCEPT ![c].pc = "loop"]
  /\ UNCHANGED <<VALID_RELATIONSHIPS, RELATIONSHIP_IMPORTANCE>>
  /\ UNCHANGED chunkerVars
  /\ UNCHANGED lightragVars
  /\ UNCHANGED extractVars

\* The loop of get_valid_relationships_for_entity over the items of the table.
FillResult(c) ==
  /\ callers[c].pc = "loop"
  /\ LET a == callers[c].args
         entity_type == IF callers[c].fn = "get_valid_relationships_for_entity"
                        THEN a[1] ELSE a[2]
     IN  frames' = [frames EXCEPT ![Frame(c)] =
                      @ \o ItemsOf(VALID_RELATIONSHIPS, Upper(entity_type))]
  /\ callers' = [callers EXCEPT ![c].pc = "filled"]
  /\ UNCHANGED <<VALID_RELATIONSHIPS, RELATIONSHIP_IMPORTANCE>>
  /\ UNCHANGED chunkerVars
  /\ UNCHANGED lightragVars
  /\ UNCHANGED extractVars

\* get_valid_relationships_for_entity returns result, to its caller or to
\* validate_knowledge_graph_relationship, which returns (False, error_msg).
ReturnResult(c) ==
  /\ callers[c].pc = "filled"
  /\ LET a == callers[c].args
         valid_rels == frames[Frame(c)]
         r == IF callers[c].fn = "get_valid_relationships_for_entity" THEN valid_rels
              ELSE <<FALSE, ErrorMessage(valid_rels, a[1], a[2], a[3], a[4], a[5])>>
     IN  callers' = [callers EXCEPT ![c].pc = "returned", ![c].result = r]
  /\ frames' = [frames EXCEPT ![Frame(c)] = <<>>]
  /\ UNCHANGED <<VALID_RELATIONSHIPS, RELATIONSHIP_IMPORTANCE>>
  /\ UNCHANGED chunkerVars
  /\ UNCHANGED lightragVars
  /\ UNCHANGED extractVars

\* The caller has taken the result.
Done(c) ==
  /\ callers[c].pc = "returned"
  /\ callers' = [callers EXCEPT ![c] = NoCall]
  /\ UNCHANGED <<VALID_RELATIONSHIPS, RELATIONSHIP_IMPORTANCE, frames>>
  /\ UNCHANGED chunkerVars
  /\ UNCHANGED lightragVars
  /\ UNCHANGED extractVars

\* rfp_aware_chunking_func(tokenizer, d)
RfpAwareChunkingFunc(d) ==
  /\ calls < MaxCalls
  /\ LET r == RfpAwareChunkingFuncOf(CHUNK_METADATA_MAP, d)
     IN  /\ lightrag_chunks' = r.result
         /\ CHUNK_METADATA_MAP' = r.map
  /\ lightrag_content' = d
  /\ calls' = calls + 1
  /\ UNCHANGED chunkerVars
  /\ UNCHANGED ontologyVars
  /\ UNCHANGED extractVars

\* clear_chunk_metadata()
ClearChunkMetadata ==
  /\ calls > 0
  /\ CHUNK_METADATA_MAP' = EmptyMap
  /\ calls' = 0
  /\ UNCHANGED <<lightrag_content, lightrag_chunks>>
  /\ UNCHANGED chunkerVars
  /\ UNCHANGED ontologyVars
  /\ UNCHANGED extractVars

\* chunker._extract_requirements(t) on the chunker instance: the method reads
\* self.requirement_patterns and writes no attribute.
ExtractRequirementsCall(t) ==
  /\ extract_text' = t
  /\ extracted' = ExtractRequirements(t)
  /\ UNCHANGED chunkerVars
  /\ UNCHANGED ontologyVars
  /\ UNCHANGED lightragVars

\* One chunker instance serving a series of documents.
Next ==
  \/ runs < MaxRuns /\ \E d \in SeriesDocs, m \in Sizes : ProcessDocument(d, m)
  \/ AddCrossReferences
  \/ Release

Spec == Init /\ [][Next]_vars

\* A new chunker instance for every document.
NextFresh ==
  \/ \E d \in Docs, m \in Sizes \cup {DefaultMaxChunkSize} : ProcessDocument(d, m)
  \/ NewChunker

SpecFresh == Init /\ [][NextFresh]_vars

\* One caller of the ontology module, one call after the other.
NextOntology ==
  \/ \E call \in OntologyCalls : Call(1, call)
  \/ Compute(1)
  \/ Check(1)
  \/ NewResult(1)
  \/ FillResult(1)
  \/ ReturnResult(1)
  \/ Done(1)

SpecOntology == Init /\ [][NextOntology]_vars

\* Callers of the ontology module whose calls interleave.
NextCallers ==
  \E c \in Callers :
    \/ \E call \in ConcurrentCalls : Call(c, call)
    \/ Compute(c)
    \/ Check(c)
    \/ NewResult(c)
    \/ FillResult(c)
    \/ ReturnResult(c)
    \/ Done(c)

SpecCallers == Init /\ [][NextCallers]_vars

\* A chunker instance that processes documents and is asked for the
\* requirements of texts in between.
NextRequirements ==
  \/ runs < MaxRuns /\ \E d \in TableDocs : ProcessDocument(d, DefaultMaxChunkSize)
  \/ Release
  \/ \E t \in Texts : ExtractRequirementsCall(t)

SpecRequirements == Init /\ [][NextRequirements]_vars

\* LightRAG calling its chunking function for one text after the other.
NextLightrag ==
  \/ \E d \in Contents : RfpAwareChunkingFunc(d)
  \/ ClearChunkMetadata

SpecLightrag == Init /\ [][NextLightrag]_vars

\* ------------------------------------------------------------------ properties

\* The chunks with every relationship list taken as the set of its members.
AsSets(cs) == [i \in 1..Len(cs) |-> [cs[i] EXCEPT !.relationships = Range(@.own)]]

Held == pc = "returned"
Fresh == pc = "returned" /\ passes = 0

TypeOf(chunk) == chunk.metadata.section_type
Related(chunk) == Range(chunk.relationships.own)
ChunksOfBase(base) == {c \in Range(rfp_chunks) : BaseOf(c.section_id) = base}

\* C1: process_document called again on the same instance with the text and the
\* budget of the call just returned gives the same chunk list: ids, contents,
\* requirement lists, and relationship lists as sets.
C1_Idempotent ==
  Fresh => AsSets(ProcessDocumentOf(relationship_mappings, document_text, size_limit).chunks)
           = AsSets(rfp_chunks)

\* C2: what process_document returns is what a new instance returns for the
\* same text and budget, whatever the instance processed before, and the
\* adjacency table always has the contents it was built with.
C2_Independent ==
  /\ relationship_mappings = InitialMappings
  /\ Fresh => AsSets(rfp_chunks)
              = AsSets(ProcessDocumentOf(InitialMappings, document_text, size_limit).chunks)

\* C3: the sections are ordered by non-decreasing start_pos, every end_pos is
\* the start_pos of the next section, and the last end_pos is the length of the
\* document.
C3_SectionsOrdered ==
  Held => \A i \in 1..Len(rfp_sections) :
            /\ rfp_sections[i].start_pos <= rfp_sections[i].end_pos
            /\ IF i < Len(rfp_sections)
               THEN /\ rfp_sections[i].start_pos <= rfp_sections[i + 1].start_pos
                    /\ rfp_sections[i].end_pos = rfp_sections[i + 1].start_pos
               ELSE rfp_sections[i].end_pos = StrLen(document_text)

\* Three sections, two of them starting at the same offset (an attachment
\* heading matched by two patterns), and text after the last heading.
C3_Witness ==
  /\ Held
  /\ Len(rfp_sections) >= 3
  /\ \E i \in 1..(Len(rfp_sections) - 1) :
       rfp_sections[i].start_pos = rfp_sections[i + 1].start_pos
  /\ \E i \in 1..(Len(rfp_sections) - 1) :
       rfp_sections[i].start_pos < rfp_sections[i + 1].start_pos

\* The spans [start_pos, end_pos) of the sections follow one another without a
\* gap from offset a to offset b.
Covers(a, b) ==
  /\ rfp_sections # <<>>
  /\ rfp_sections[1].start_pos = a
  /\ rfp_sections[Len(rfp_sections)].end_pos = b
  /\ \A i \in 1..(Len(rfp_sections) - 1) :
       rfp_sections[i].end_pos = rfp_sections[i + 1].start_pos

\* The lines that are section headings: "SECTION <label> - ..." and
\* "Attachment J-<n> - ...".
HeadingLines == {i \in 1..Len(document_text) : document_text[i].k \in {"hdr", "att"}}

FirstHeading == CHOOSE i \in HeadingLines : \A j \in HeadingLines : i <= j

\* C4 as stated: the spans of the sections of a document with text cover it
\* from offset 0 to its length.
C4_WholeDocument ==
  Held /\ document_text # <<>> => Covers(0, StrLen(document_text))

\* C4: the spans of the sections cover the document from the start of its
\* first section heading to its length; the text before that heading is in no
\* section, and a document without a section heading has no sections.
C4_FromFirstHeading ==
  Held => IF HeadingLines = {} THEN rfp_sections = <<>>
          ELSE Covers(Offset(document_text, FirstHeading), StrLen(document_text))

\* Text lies before the first heading and outside every section.
C4_Witness ==
  /\ Held
  /\ rfp_sections # <<>>
  /\ rfp_sections[1].start_pos > 0
  /\ Len(rfp_sections) >= 2

\* The number a chunk id spells after "chunk_", or -1.
IdNumber(id) ==
  LET digit(c) == CHOOSE v \in 0..9 : DigitStr[v + 1] = c
  IN  IF Len(id) = 5 /\ id[1] = "chunk_" /\ \A k \in 2..5 : id[k] \in Range(DigitStr)
      THEN 1000 * digit(id[2]) + 100 * digit(id[3]) + 10 * digit(id[4]) + digit(id[5])
      ELSE -1

\* C5: the chunk_order values of the N chunks of a document are 0..N-1 in list
\* order, every chunk_id is "chunk_" followed by the chunk_order in four
\* digits, and no two chunks have the same chunk_id.
C5_Ordinals ==
  Held => /\ \A i \in 1..Len(rfp_chunks) :
               /\ rfp_chunks[i].chunk_order = i - 1
               /\ IdNumber(rfp_chunks[i].chunk_id) = rfp_chunks[i].chunk_order
          /\ \A i, j \in 1..Len(rfp_chunks) :
               rfp_chunks[i].chunk_id = rfp_chunks[j].chunk_id => i = j

\* Chunks of two sections, made by the paragraph splitter and by the
\* requirement splitter.
C5_Witness ==
  /\ Held
  /\ Len(rfp_chunks) >= 5
  /\ \E c \in Range(rfp_chunks) : TypeOf(c) = "partial_section" /\ c.chunk_order > 0
  /\ \E c \in Range(rfp_chunks) : TypeOf(c) = "requirement_split" /\ c.chunk_order > 0

RECURSIVE RequirementsInChunks(_)
RequirementsInChunks(cs) ==
  IF cs = <<>> THEN 0
  ELSE Head(cs).metadata.requirements_in_chunk + RequirementsInChunks(Tail(cs))

\* C6: a section that yields n > 5 requirements and is the only one with its
\* section id gets ceil(n/3) chunks, all of type requirement_split, each but the
\* last with 3 requirements, and their requirements_in_chunk sum to n.
C6_RequirementGroups ==
  Held =>
    \A i \in 1..Len(rfp_sections) :
      LET section == rfp_sections[i]
          n == Len(ExtractRequirements(section.content))
          cs == SelectSeq(rfp_chunks, LAMBDA c : c.section_id = section.section_id)
      IN  (/\ n > DensityThreshold
           /\ \A j \in 1..Len(rfp_sections) :
                rfp_sections[j].section_id = section.section_id => j = i)
          => /\ Len(cs) = (n + MaxRequirementsPerChunk - 1) \div MaxRequirementsPerChunk
             /\ \A k \in 1..Len(cs) :
                  /\ TypeOf(cs[k]) = "requirement_split"
                  /\ k < Len(cs) =>
                       cs[k].metadata.requirements_in_chunk = MaxRequirementsPerChunk
             /\ RequirementsInChunks(cs) = n

Oversized(chunk) == StrLen(chunk.content) > size_limit

\* The section of the document a chunk was cut from has no subsections and
\* no paragraph break.
NoStructure(chunk) ==
  \E i \in 1..Len(rfp_sections) :
    /\ rfp_sections[i].section_id = chunk.section_id
    /\ rfp_sections[i].subsections = <<>>
    /\ Len(Paragraphs(rfp_sections[i].content, <<>>)) = 1

C8_InstructionsToEvaluation ==
  Held /\ ChunksOfBase("L") # {} /\ ChunksOfBase("M") # {} =>
    \A c \in ChunksOfBase("L") :
      Contains(c.content, "evaluat") =>
        \E m \in ChunksOfBase("M") : m.chunk_id \in Related(c)

C10_NoSelfNoDuplicate ==
  Held => \A c \in Range(rfp_chunks) :
            /\ c.chunk_id \notin Related(c)
            /\ \A i, j \in 1..Len(c.relationships.own) :
                 c.relationships.own[i] = c.relationships.own[j] => i = j

\* After a further pass: the list of one chunk started from a table entry that
\* held the chunk's own id, left there by an earlier document, and the pass has
\* appended to the list of one chunk ids the list already held.
C10_Witness ==
  /\ Held
  /\ passes > 0
  /\ \E c \in Range(rfp_chunks) :
       /\ BaseOf(c.section_id) \in DOMAIN relationship_mappings
       /\ c.chunk_id \in Range(relationship_mappings[BaseOf(c.section_id)])
  /\ \E c \in Range(rfp_chunks) :
       /\ Extension(rfp_chunks, c) # <<>>
       /\ Range(Extension(rfp_chunks, c)) \subseteq Related(c)

\* C11: a further _add_cross_references pass over the list a pass returned
\* leaves the relationship list of every chunk, taken as a set, as it was.
C11_PassIdempotent ==
  [][AddCrossReferences => AsSets(rfp_chunks') = AsSets(rfp_chunks)]_vars

\* A second further pass over chunks of which one, cut from a subsection, has
\* ids to append.
C11_Witness ==
  /\ Held
  /\ passes = MaxPasses
  /\ \E c \in Range(rfp_chunks) :
       c.subsection_id # NoSubsection /\ Extension(rfp_chunks, c) # <<>>

\* A caller has returned from a call of fn.
Returned(c, fn) == callers[c].pc = "returned" /\ callers[c].fn = fn

\* The schema has the key (s, r) and t among its targets, the casing of the
\* three strings set aside.
InSchema(s, r, t) ==
  \E i \in 1..Len(InitialValidRelationships) :
    LET e == InitialValidRelationships[i]
    IN  /\ e.source.w = s.w
        /\ e.relation.w = r.w
        /\ \E k \in 1..Len(e.targets) : e.targets[k].w = t.w

\* The entity types of the module, and one it does not know.
EntityTypes ==
  {"ORGANIZATION", "CONCEPT", "EVENT", "TECHNOLOGY", "PERSON", "LOCATION", "REQUIREMENT",
   "CLAUSE", "SECTION", "DOCUMENT", "WIDGET"}

\* C12: is_valid_relationship(s, r, t) is true exactly when the schema has the
\* key (s, r) and t among the key's targets, in whatever casing the three are
\* given; SECTION REFERENCES REQUIREMENT is valid and PERSON CONTAINS SECTION is
\* not; get_compatible_entity_types(s, r) lists the targets that are valid.
C12_ValidIffInSchema ==
  \A c \in Callers :
    LET a == callers[c].args
    IN  /\ Returned(c, "is_valid_relationship") =>
             /\ callers[c].result = InSchema(a[1], a[2], a[3])
             /\ <<a[1].w, a[2].w, a[3].w>> = <<"SECTION", "REFERENCES", "REQUIREMENT">>
                  => callers[c].result = TRUE
             /\ <<a[1].w, a[2].w, a[3].w>> = <<"PERSON", "CONTAINS", "SECTION">>
                  => callers[c].result = FALSE
        /\ Returned(c, "get_compatible_entity_types") =>
             \A w \in EntityTypes :
               Member(Str(w, "U"), callers[c].result)
                 <=> IsValidRelationship(VALID_RELATIONSHIPS, a[1], a[2], Str(w, "U"))

\* A valid relationship given in lower and mixed case.
C12_Witness ==
  /\ Returned(1, "is_valid_relationship")
  /\ callers[1].args[1].c = "l"
  /\ callers[1].args[2].c = "m"
  /\ callers[1].args[3].c = "l"
  /\ callers[1].result = TRUE

\* C13: assess_relationship_importance returns "critical" for source_id L with
\* target_id M, and for source_id M with target_id L, whatever the types are.
C13_LMCritical ==
  \A c \in Callers :
    LET a == callers[c].args
    IN  /\ Returned(c, "assess_relationship_importance")
        /\ \/ a[2] = <<"L">> /\ a[5] = <<"M">>
           \/ a[2] = <<"M">> /\ a[5] = <<"L">>
        => callers[c].result = "critical"

\* The items of the schema whose source is the type s and whose relation is r,
\* casing set aside.
SchemaItems(s, r) ==
  SelectSeq(InitialValidRelationships, LAMBDA e : e.source.w = s.w /\ e.relation.w = r.w)

\* The items of the schema whose source is the type s.
SchemaItemsOf(s) == SelectSeq(InitialValidRelationships, LAMBDA e : e.source.w = s.w)

\* C14: validate_knowledge_graph_relationship returns (True, None) exactly when
\* the relationship is valid; otherwise (False, message), the message being the
\* invalid-relationship one with the relations of the source type when the
\* source type has no entry for the relation, and the invalid-target one with
\* the targets of that entry when it has.
C14_Diagnostic ==
  \A c \in Callers :
    Returned(c, "validate_knowledge_graph_relationship") =>
      LET a == callers[c].args
          ok == callers[c].result[1]
          msg == callers[c].result[2]
      IN  /\ ok = InSchema(a[2], a[3], a[5])
          /\ ok => msg = None
          /\ ~ok =>
               /\ msg # None
               /\ IF SchemaItems(a[2], a[3]) = <<>>
                  THEN /\ msg.text = "Invalid relationship for entity type"
                       /\ msg.valid = [i \in 1..Len(SchemaItemsOf(a[2])) |->
                                         SchemaItemsOf(a[2])[i].relation]
                  ELSE /\ msg.text = "Invalid target type for relationship"
                       /\ msg.valid = SchemaItems(a[2], a[3])[1].targets

\* A known relation of the source type, given in lower case, with a target type
\* the schema does not allow.
C14_Witness ==
  /\ Returned(1, "validate_knowledge_graph_relationship")
  /\ callers[1].args[3].c = "l"
  /\ callers[1].result[1] = FALSE
  /\ callers[1].result[2].text = "Invalid target type for relationship"
  /\ callers[1].result[2].valid # <<>>

\* The values the importance table gives for a key.
TableValues(key) ==
  {InitialRelationshipImportance[i].value :
     i \in {j \in 1..Len(InitialRelationshipImportance) :
              InitialRelationshipImportance[j].key = key}}

Alone(fn, a) ==
  CASE fn = "is_valid_relationship" ->
         IsValidRelationship(InitialValidRelationships, a[1], a[2], a[3])
    [] fn = "get_valid_relationships_for_entity" ->
         GetValidRelationshipsForEntity(InitialValidRelationships, a[1])
    [] fn = "validate_knowledge_graph_relationship" ->
         ValidateKnowledgeGraphRelationship(InitialValidRelationships,
                                            a[1], a[2], a[3], a[4], a[5])
    [] fn = "get_compatible_entity_types" ->
         GetCompatibleEntityTypes(InitialValidRelationships, a[1], a[2])
    [] OTHER ->
         AssessRelationshipImportance(InitialRelationshipImportance,
                                      a[1], a[2], a[3], a[4], a[5])

\* C16: however the calls of the callers interleave, the two tables keep the
\* contents they were defined with and every call returns what it returns
\* when it runs alone.
C16_CallsDoNotInterfere ==
  /\ VALID_RELATIONSHIPS = InitialValidRelationships
  /\ RELATIONSHIP_IMPORTANCE = InitialRelationshipImportance
  /\ \A c \in Callers :
       callers[c].pc = "returned" => callers[c].result = Alone(callers[c].fn, callers[c].args)

\* Caller 2 has returned an error message built from the relations it
\* collected while caller 1 was collecting those of another entity type.
C16_Witness ==
  /\ callers[1].pc = "filled"
  /\ frames[1] # <<>>
  /\ Returned(2, "validate_knowledge_graph_relationship")
  /\ callers[2].result[1] = FALSE
  /\ callers[2].args[2] # callers[1].args[1]

\* C15 as stated: a text that _detect_rfp_document takes for an RFP and in
\* which identify_sections finds no section is chunked by the standard
\* strategy, chunking_by_token_size; the call does not return an empty list.
C15_FallsBack ==
  (/\ calls > 0
   /\ DetectRfpDocument(lightrag_content)
   /\ IdentifySections(lightrag_content) = <<>>)
  => lightrag_chunks = ChunkingByTokenSize(lightrag_content)

\* What the call returns for such a text: the empty list.
C15_EmptyList ==
  (/\ calls > 0
   /\ DetectRfpDocument(lightrag_content)
   /\ IdentifySections(lightrag_content) = <<>>)
  => lightrag_chunks = <<>>

C15_Witness ==
  /\ calls > 0
  /\ DetectRfpDocument(lightrag_content)
  /\ IdentifySections(lightrag_content) = <<>>
  /\ lightrag_content # <<>>

\* The sentence units of a text, as re.split(r'[.!?]+', text) cuts them,
\* each stripped.
Units(t) ==
  LET sentences == SplitSentences(Pieces(t), <<>>)
  IN  [i \in 1..Len(sentences) |-> PStrip(sentences[i])]

\* The unit has an obligation word.
Obligation(unit) == \E i \in 1..Len(unit) : POblig(unit[i])

\* The strings are white-space collapsed: they hold no line of blanks.
Collapsed(reqs) ==
  \A i \in 1..Len(reqs) : \A j \in 1..Len(reqs[i]) : reqs[i][j].k \notin {"blank", "nl2"}

\* reqs are the first MaxRequirements of the units picked out, in the order of
\* the text, each white-space collapsed.
FirstOfPicked(reqs, units, picked) ==
  LET idx == SelectSeq([i \in 1..Len(units) |-> i], LAMBDA i : picked[i])
      n == IF Len(idx) < MaxRequirements THEN Len(idx) ELSE MaxRequirements
  IN  /\ Len(reqs) = n
      /\ \A i \in 1..n : reqs[i] = CleanReq(units[idx[i]])
      /\ Collapsed(reqs)

\* C18: a call of _extract_requirements leaves the chunker as it is and
\* returns at most 10 strings: the first 10, in the order of the text and
\* white-space collapsed, of the sentence units that are at least 20
\* characters long, match an obligation pattern and are more than 30
\* characters long once collapsed.
C18_Substantial ==
  [][ExtractRequirementsCall(extract_text') =>
       /\ relationship_mappings' = relationship_mappings
       /\ Len(extracted') <= MaxRequirements
       /\ LET units == Units(extract_text')
          IN  FirstOfPicked(extracted', units,
                            [i \in 1..Len(units) |->
                               /\ SentenceLen(units[i]) >= MinSentenceLen
                               /\ Obligation(units[i])
                               /\ CleanLen(CleanReq(units[i])) > MinCleanLen])]_vars

\* C18 as stated: every sentence unit of at least 20 characters that matches
\* an obligation pattern is returned (among the first 10).
C18_EveryUnit ==
  [][ExtractRequirementsCall(extract_text') =>
       /\ relationship_mappings' = relationship_mappings
       /\ Len(extracted') <= MaxRequirements
       /\ LET units == Units(extract_text')
          IN  FirstOfPicked(extracted', units,
                            [i \in 1..Len(units) |->
                               /\ SentenceLen(units[i]) >= MinSentenceLen
                               /\ Obligation(units[i])])]_vars

\* A text with a short obligation sentence and more than 10 long ones has been
\* given to a chunker whose table is no longer the initial one.
C18_Witness ==
  /\ relationship_mappings # InitialMappings
  /\ extract_text # <<>>
  /\ extract_text[1] = Brief
  /\ Len(extract_text) > MaxRequirements + 1
  /\ Len(extracted) = MaxRequirements

\* The triggers of _add_cross_references: the label of the chunk, the keyword
\* in its content, and the section whose chunk ids are appended.
Triggers ==
  {<<"L", "evaluat", "M">>, <<"M", "instruction", "L">>,
   <<"C", "clin", "B">>, <<"C", "performance", "F">>}

\* C19 as stated: after process_document on a new chunker, a chunk holds the id
\* of a chunk of a trigger's target section only if its own content contains
\* the trigger's keyword.
C19_OwnTriggerOnly ==
  Fresh =>
    \A c \in Range(rfp_chunks) : \A x \in Triggers :
      (/\ BaseOf(c.section_id) = x[1]
       /\ \E d \in ChunksOfBase(x[3]) : d.chunk_id \in Related(c))
      => Contains(c.content, x[2])

\* The chunks are those of one section that took the path the claim names for
\* it under the budget.
OnePath(section, cs, budget) ==
  LET tags == {TypeOf(c) : c \in Range(cs)}
      subs == section.subsections
      fits(i) == StrLen(subs[i].content) <= budget
      of(i) == {c \in Range(cs) : c.subsection_id = subs[i].subsection_id}
  IN  /\ \A c \in Range(cs) : c.section_id = section.section_id
      /\ IF Len(ExtractRequirements(section.content)) > DensityThreshold
         THEN tags \subseteq {"requirement_split"}
         ELSE IF StrLen(section.content) <= budget
         THEN /\ Len(cs) = 1
              /\ tags = {"complete_section"}
              /\ cs[1].content = section.content
         ELSE IF subs # <<>>
         THEN /\ tags \subseteq {"subsection", "partial_section"}
              /\ \A c \in Range(cs) : \E i \in 1..Len(subs) : c \in of(i)
              /\ \A i \in 1..Len(subs) :
                    IF fits(i)
                    THEN \A c \in of(i) : TypeOf(c) = "subsection" /\ c.content = subs[i].content
                    ELSE of(i) # {} /\ \A c \in of(i) : TypeOf(c) = "partial_section"
              /\ Cardinality({j \in 1..Len(cs) : TypeOf(cs[j]) = "subsection"})
                   = Cardinality({i \in 1..Len(subs) : fits(i)})
         ELSE /\ cs # <<>>
              /\ tags = {"partial_section"}
              /\ \A c \in Range(cs) : c.subsection_id = NoSubsection

\* C20: the chunk list is made of one run of chunks per section, in the order
\* of the sections, and the run of a section is of one path: requirement_split
\* chunks only when more than 5 requirements are extracted from it, whether it
\* fits the budget or not; else one complete_section chunk with the whole
\* content when it fits; else, with subsections, one subsection chunk for each
\* subsection that fits and partial_section chunks with the subsection's id for
\* each that does not; else partial_section chunks without a subsection id.
C20_OnePathPerSection ==
  Fresh =>
    LET n == Len(rfp_sections)
        k == Len(rfp_chunks)
    IN  \E last \in [1..n -> 0..k] :
          /\ n > 0 => last[n] = k
          /\ n = 0 => k = 0
          /\ \A i \in 1..n :
                LET first == IF i = 1 THEN 1 ELSE last[i - 1] + 1
                IN  /\ first <= last[i] + 1
                    /\ OnePath(rfp_sections[i], SubSeq(rfp_chunks, first, last[i]), size_limit)

\* A section of more than 5 requirements that fits the budget has been split by
\* requirement groups, next to a section that was emitted whole.
C20_Witness ==
  /\ Fresh
  /\ \E i \in 1..Len(rfp_sections) :
       /\ StrLen(rfp_sections[i].content) <= size_limit
       /\ Len(ExtractRequirements(rfp_sections[i].content)) > DensityThreshold
       /\ \E c \in Range(rfp_chunks) :
            c.section_id = rfp_sections[i].section_id /\ TypeOf(c) = "requirement_split"
  /\ \E c \in Range(rfp_chunks) : TypeOf(c) = "complete_section"

\* Both kinds of subsection have been met: one that fits and one that is split.
C20_SubsectionPaths ==
  /\ Fresh
  /\ \E c \in Range(rfp_chunks) : TypeOf(c) = "subsection"
  /\ \E c \in Range(rfp_chunks) :
       TypeOf(c) = "partial_section" /\ c.subsection_id # NoSubsection

\* The lines of t that start at an offset from a up to, not including, b.
Between(t, a, b) ==
  LET idx == {i \in 1..Len(t) : Offset(t, i) >= a /\ Offset(t, i) < b}
  IN  [j \in 1..Cardinality(idx) |-> t[(CHOOSE i \in idx : \A m \in idx : i <= m) + j - 1]]

\* The requirement_split chunks of the sections named sid, in list order.
SplitChunksOf(sid) ==
  SelectSeq(rfp_chunks, LAMBDA c : c.section_id = sid /\ TypeOf(c) = "requirement_split")

\* The section is the only one of its name in the document.
OnlyOfItsName(i) ==
  \A j \in 1..Len(rfp_sections) : rfp_sections[j].section_id = rfp_sections[i].section_id => j = i

\* C21: the requirement_split chunks of a section are its requirement groups:
\* chunk k is the content from max(0, p_k - 200), p_k the offset of the first
\* requirement of group k, up to the offset of the first requirement of group
\* k + 1, or to the end of the content for the last group; its
\* requirements_in_chunk is the size of the group and its chunk_part is k of
\* the number of groups.
C21_GroupSpans ==
  Fresh =>
    \A i \in 1..Len(rfp_sections) :
      OnlyOfItsName(i) =>
        LET content == rfp_sections[i].content
            cs == SplitChunksOf(rfp_sections[i].section_id)
            total == Len(cs)
            p(k) == Find(content, cs[k].requirements[1])
        IN  \A k \in 1..total :
              /\ cs[k].requirements # <<>>
              /\ p(k) >= 0
              /\ cs[k].content
                   = Strip(Between(content,
                                   IF p(k) < ContextBefore THEN 0 ELSE p(k) - ContextBefore,
                                   IF k < total THEN p(k + 1) ELSE StrLen(content)))
              /\ cs[k].metadata.requirements_in_chunk = Len(cs[k].requirements)
              /\ cs[k].metadata.chunk_part = <<k, total>>

\* A section has been split into three groups, the first of which starts less
\* than 200 characters into the content and the second more.
C21_Witness ==
  /\ Fresh
  /\ \E i \in 1..Len(rfp_sections) :
       LET cs == SplitChunksOf(rfp_sections[i].section_id)
       IN  /\ OnlyOfItsName(i)
           /\ Len(cs) = 3
           /\ Find(rfp_sections[i].content, cs[1].requirements[1]) \in 1..(ContextBefore - 1)
           /\ Find(rfp_sections[i].content, cs[2].requirements[1]) > ContextBefore
           /\ Len(cs[3].requirements) < MaxRequirementsPerChunk


\* The paragraphs of t: its maximal runs of lines that are not blank.
RECURSIVE Runs(_, _)
Runs(t, cur) ==
  IF t = <<>> THEN (IF cur = <<>> THEN <<>> ELSE <<cur>>)
  ELSE IF IsWs(Head(t))
       THEN (IF cur = <<>> THEN <<>> ELSE <<cur>>) \o Runs(Tail(t), <<>>)
       ELSE Runs(Tail(t), Append(cur, Head(t)))

\* The lines of t as they were written, whatever was stripped from them.
Plain(t) == [i \in 1..Len(t) |-> [t[i] EXCEPT !.cut = 0]]

\* The length of paragraph j of a stripped content: the newline that ends it
\* belongs to the break after it.
ParagraphLen(paragraphs, j) ==
  StrLen(paragraphs[j]) - (IF j < Len(paragraphs) THEN 1 ELSE 0)

\* The length of the buffer that holds the paragraphs a..m, each followed by
\* the two newlines the loop appends to it.
RECURSIVE Buffered(_, _, _)
Buffered(paragraphs, a, m) ==
  IF m < a THEN 0 ELSE ParagraphLen(paragraphs, m) + 2 + Buffered(paragraphs, a, m - 1)

\* The chunks cs are the greedy packing of the paragraphs of content under the
\* budget: every paragraph in one chunk, in order; a chunk is closed exactly
\* when the next paragraph does not fit behind its buffer; content without a
\* blank-line break is one chunk with the whole content.
SplitsInto(content, cs, budget) ==
  LET paragraphs == Runs(content, <<>>)
      count(k) == Len(Runs(cs[k].content, <<>>))
      last[k \in 0..Len(cs)] == IF k = 0 THEN 0 ELSE last[k - 1] + count(k)
  IN  /\ last[Len(cs)] = Len(paragraphs)
      /\ \A k \in 1..Len(cs) :
            /\ count(k) >= 1
            /\ cs[k].metadata.paragraph_count = count(k)
            /\ \A j \in 1..count(k) :
                  last[k - 1] + j <= Len(paragraphs)
                  /\ Plain(Runs(cs[k].content, <<>>)[j]) = Plain(paragraphs[last[k - 1] + j])
            /\ \A m \in (last[k - 1] + 2)..last[k] :
                  m <= Len(paragraphs)
                  /\ Buffered(paragraphs, last[k - 1] + 1, m - 1) + ParagraphLen(paragraphs, m) <= budget
            /\ (k < Len(cs) /\ last[k] < Len(paragraphs)) =>
                  Buffered(paragraphs, last[k - 1] + 1, last[k])
                    + ParagraphLen(paragraphs, last[k] + 1) > budget
      /\ Len(paragraphs) = 1 => Len(cs) = 1 /\ cs[1].content = content

\* The partial_section chunks of the sections named sid with subsection id sub.
PartialChunksOf(sid, sub) ==
  SelectSeq(rfp_chunks, LAMBDA c : /\ c.section_id = sid
                                   /\ c.subsection_id = sub
                                   /\ TypeOf(c) = "partial_section")

\* The section is split by paragraphs: few requirements, over the budget.
ParagraphSplit(section) ==
  /\ Len(ExtractRequirements(section.content)) <= DensityThreshold
  /\ StrLen(section.content) > size_limit

\* C22: wherever _split_large_content is applied - to a section over the
\* budget without subsections, or to a subsection over the budget - the
\* partial_section chunks it returns hold every paragraph of its input exactly
\* once and in order, a chunk ends exactly where the next paragraph does not
\* fit behind the buffer, the rest of the buffer is emitted at the end, and an
\* input without a blank-line break comes back as one chunk with the whole
\* content, whatever its length.
C22_ParagraphPacking ==
  Fresh =>
    \A i \in 1..Len(rfp_sections) :
      (OnlyOfItsName(i) /\ ParagraphSplit(rfp_sections[i])) =>
        LET section == rfp_sections[i]
            subs == section.subsections
        IN  IF subs = <<>>
            THEN SplitsInto(section.content, PartialChunksOf(section.section_id, NoSubsection), size_limit)
            ELSE \A s \in 1..Len(subs) :
                   (/\ StrLen(subs[s].content) > size_limit
                    /\ \A r \in 1..Len(subs) : subs[r].subsection_id = subs[s].subsection_id => r = s)
                   => SplitsInto(subs[s].content, PartialChunksOf(section.section_id, subs[s].subsection_id), size_limit)

\* A section over the budget was packed into at least two chunks, one of them
\* with two paragraphs or more.
C22_Witness ==
  /\ Fresh
  /\ \E i \in 1..Len(rfp_sections) :
       /\ OnlyOfItsName(i)
       /\ ParagraphSplit(rfp_sections[i])
       /\ rfp_sections[i].subsections = <<>>
       /\ LET cs == PartialChunksOf(rfp_sections[i].section_id, NoSubsection)
          IN  /\ Len(cs) >= 2
              /\ \E k \in 1..Len(cs) : cs[k].metadata.paragraph_count >= 2

\* A section over the budget without a blank-line break came back as one chunk
\* longer than the budget.
C22_WholeWitness ==
  /\ Fresh
  /\ \E i \in 1..Len(rfp_sections) :
       /\ OnlyOfItsName(i)
       /\ ParagraphSplit(rfp_sections[i])
       /\ rfp_sections[i].subsections = <<>>
       /\ Len(Runs(rfp_sections[i].content, <<>>)) = 1
       /\ Len(PartialChunksOf(rfp_sections[i].section_id, NoSubsection)) = 1


\* The section id as _identify_subsections receives it.
ParentOf(section) == section.section_id

\* The conventions that have a match in the content of the section.
Matching(section) ==
  {p \in 1..NumSubsectionPatterns : SubMatches(p, ParentOf(section), section.content, 1) # <<>>}

\* C23: the subsections of a section are the kept candidates (span longer
\* than 50 characters) of the highest-priority convention that has a match in
\* the section content, and of no other: when every candidate of that
\* convention is discarded the section has no subsections.
C23_HighestMatchingConvention ==
  Fresh =>
    \A i \in 1..Len(rfp_sections) :
      LET section == rfp_sections[i]
          first == CHOOSE p \in Matching(section) : \A q \in Matching(section) : p <= q
      IN  IF Matching(section) = {}
          THEN section.subsections = <<>>
          ELSE /\ \A n \in 1..Len(section.subsections) :
                     \E m \in 1..Len(section.content) :
                        /\ Offset(section.content, m) = section.subsections[n].start_pos
                        /\ SubsectionPattern(first, ParentOf(section), section.content[m])
               /\ \A n \in 1..Len(section.subsections) :
                     StrLen(section.subsections[n].content) > MinSubsectionLen


\* C24: assess_relationship_importance returns the value of the table entry
\* that names the relationship: critical from SECTION L or M to a REQUIREMENT,
\* important from SECTION C to a REQUIREMENT and from SECTION I to a CLAUSE,
\* informational from SECTION J to a DOCUMENT, whatever the target's id.
C24_EntriesDetermine ==
  \A c \in Callers :
    Returned(c, "assess_relationship_importance") =>
      LET a == callers[c].args
          r == callers[c].result
          from(label, type) == a[1] = <<"SECTION">> /\ a[2] = <<label>> /\ a[4] = <<type>>
      IN  /\ (from("L", "REQUIREMENT") \/ from("M", "REQUIREMENT")) => r = "critical"
          /\ (from("C", "REQUIREMENT") \/ from("I", "CLAUSE")) => r = "important"
          /\ from("J", "DOCUMENT") => r = "informational"


\* C25: every section identify_sections returned has at least one chunk in the
\* list create_contextual_chunks returned.
C25_EverySectionChunked ==
  Fresh =>
    \A i \in 1..Len(rfp_sections) :
      \E c \in Range(rfp_chunks) : c.section_id = rfp_sections[i].section_id


\* C26: every line of text of a section's content is in the content of at
\* least one of the chunks emitted for the section.
C26_NoTextDropped ==
  Fresh =>
    \A i \in 1..Len(rfp_sections) :
      OnlyOfItsName(i) =>
        \A m \in 1..Len(rfp_sections[i].content) :
          LET u == rfp_sections[i].content[m]
          IN  ~IsWs(u) =>
                \E c \in Range(rfp_chunks) :
                  /\ c.section_id = rfp_sections[i].section_id
                  /\ \E v \in Range(c.content) : Same(u, v)


\* C27: after process_document every element of every chunk's relationship
\* list is the chunk_id of another chunk of the returned list.
C27_ChunkIdsOnly ==
  Fresh =>
    \A c \in Range(rfp_chunks) : \A r \in Related(c) :
      \E d \in Range(rfp_chunks) : d.chunk_id = r /\ d.chunk_id # c.chunk_id


\* The metadata of the chunks in what a call for the text t returned: those of
\* the RFP-aware chunks, none for the chunks of the standard strategy.
Produced(t, result) ==
  IF DetectRfpDocument(t) THEN {result[i].metadata : i \in 1..Len(result)} ELSE {}

\* C28: while clear_chunk_metadata is not called, get_chunk_metadata returns
\* for every chunk of the call that just returned and of the call before it
\* the metadata of that chunk; once clear_chunk_metadata has been called and
\* no call has been made since, every lookup returns None.
C28_MetadataKept ==
  /\ [](calls = 0 =>
          \A id \in DOMAIN CHUNK_METADATA_MAP
                    \cup {m.chunk_id : m \in Produced(lightrag_content, lightrag_chunks)} :
            GetChunkMetadata(CHUNK_METADATA_MAP, id) = None)
  /\ [][RfpAwareChunkingFunc(lightrag_content') =>
          /\ \A m \in Produced(lightrag_content', lightrag_chunks') :
                GetChunkMetadata(CHUNK_METADATA_MAP', m.chunk_id) = m
          /\ calls > 0 =>
                \A m \in Produced(lightrag_content, lightrag_chunks) :
                   GetChunkMetadata(CHUNK_METADATA_MAP', m.chunk_id) = m]_vars

\* C29: every section identify_sections returned has start_pos < end_pos and
\* content that is not empty, and no chunk has empty content.
C29_NothingEmpty ==
  Fresh =>
    /\ \A i \in 1..Len(rfp_sections) :
          /\ rfp_sections[i].start_pos < rfp_sections[i].end_pos
          /\ rfp_sections[i].content # <<>>
    /\ \A c \in Range(rfp_chunks) : c.content # <<>>

\* C30: every source type and every target type of VALID_RELATIONSHIPS is the
\* name of an EntityType member and every relation name of its keys is the
\* name of a RelationshipType member.
C30_SchemaClosed ==
  \A i \in 1..Len(VALID_RELATIONSHIPS) :
    LET e == VALID_RELATIONSHIPS[i]
    IN  /\ e.source.w \in EntityType
        /\ \A t \in Range(e.targets) : t.w \in EntityType
        /\ e.relation.w \in RelationshipType

====
